---- MODULE Spec2Model ----
(***************************************************************************)
(* Model of the USBFREEDOM device-provisioning pipeline:                   *)
(*   usbfreedom/utils.py        run_command                                *)
(*   usbfreedom/partition.py    PartitionManager                           *)
(*   usbfreedom/persistence.py  PersistenceBuilder                         *)
(*   usbfreedom/core.py         Flasher                                    *)
(* Every external program is an environment choice among three outcomes:   *)
(* it exits 0 ("ok"), exits non-zero ("nonzero"), or cannot be started     *)
(* ("nostart", subprocess.run raises FileNotFoundError/OSError).           *)
(***************************************************************************)
EXTENDS Integers, Sequences, FiniteSets, TLC

VARIABLES
    persistence_enabled,  \* Flasher.persistence_enabled
    image_exists,         \* self.image_path.exists()
    device_exists,        \* os.path.exists(self.device_path)
    is_block,             \* the device path is a block device (test -b)
    mounts,               \* mount-table lines that mention the device path
    pc,                   \* position of the run in Flasher.flash
    status,               \* "running" | "success" | "failed"
    error,                \* kind of the exception that left flash, or "none"
    failed_at,            \* the step whose exception left flash, or "none"
    cmds,                 \* external programs invoked so far, in order
    steps,                \* steps of the run that have been entered, in order
    warnings,             \* logger.warning / logger.error events of the run
    content,              \* items present on the persistence partition
    mounted,              \* temporary mount points that are still mounted
    tmpdirs,              \* temporary directories that still exist
    setup_result,         \* last outcome of setup_persistence_structure
    verify_result,        \* last outcome of verify_persistence
    last,                 \* the most recent PersistenceBuilder call
    calls,                \* PersistenceBuilder calls made by a direct caller
    system,               \* platform.system() as read by _flash_simple
    image_size,           \* os.path.getsize(self.image_path), a byte count
    total_size,           \* the device size blockdev reports, a byte count
    persistence_size_mb,  \* Flasher.persistence_size_mb / the scheme's field
    boot_size_mb,         \* PartitionScheme.boot_size_mb
    sizes,                \* the pair calculate_sizes returned
    table_cmds,           \* argument vectors create_partition_table issued
    size_pc,              \* position of the sizing computation
    device_path,          \* PartitionManager.device_path, a character string
    used,                 \* partition nodes addressed so far, by whom
    rc_args,              \* arguments and environment of a run_command call
    rc_result,            \* what that call returned or raised
    cli_args,             \* parsed arguments and operator input of main()
    cli_pc,               \* position of main()
    exit_code,            \* exit status of main(), -1 while it runs
    cli_trace,            \* what main() has printed and done, in order
    call,                 \* a direct call of a library function: its
                          \* arguments and what the environment will do
    returned              \* what that call returned, wrote and logged

vars == << persistence_enabled, image_exists, device_exists, is_block, mounts,
           pc, status, error, failed_at, cmds, steps, warnings, content,
           mounted, tmpdirs, setup_result, verify_result, last, calls, system,
           image_size, total_size, persistence_size_mb, boot_size_mb, sizes,
           table_cmds, size_pc, device_path, used, rc_args, rc_result,
           cli_args, cli_pc, exit_code, cli_trace, call,
           returned >>

envVars == << persistence_enabled, image_exists, device_exists, is_block >>
pbVars == << content, mounted, tmpdirs, setup_result, verify_result, last >>
sizeVars == << image_size, total_size, persistence_size_mb, boot_size_mb,
               sizes, table_cmds, size_pc >>

pathVars == << device_path, used >>
runVars == << rc_args, rc_result >>
cliVars == << cli_args, cli_pc, exit_code, cli_trace >>

toolVars == << call, returned >>

\* The variables that a flash run and a PersistenceBuilder call leave alone.
offVars == << sizeVars, pathVars, runVars, cliVars, toolVars >>

\* ------------------------------------------------------------------------
\* Bounds

\* mount-table lines that mention the device when the run starts
MaxMounts == 1

\* direct PersistenceBuilder calls explored from one partition state
MaxCalls == 2

\* ------------------------------------------------------------------------
\* Byte counts.  A device or image size does not fit the 32-bit integers of
\* the model checker, so the byte count b is held exactly as the pair
\* (b div 2^20, b mod 2^20); Python's integers are unbounded and `//` is
\* floor division, which is what the pair gives for negative counts too.

MiB == 1048576

Bytes(m, r) == [mib |-> m, rem |-> r]

FromMiB(m) == Bytes(m, 0)

Minus(a, b) ==
    IF a.rem >= b.rem THEN Bytes(a.mib - b.mib, a.rem - b.rem)
    ELSE Bytes(a.mib - b.mib - 1, a.rem - b.rem + MiB)

Plus(a, b) ==
    IF a.rem + b.rem < MiB THEN Bytes(a.mib + b.mib, a.rem + b.rem)
    ELSE Bytes(a.mib + b.mib + 1, a.rem + b.rem - MiB)

Negative(a) == a.mib < 0

AtLeast(a, b) == ~Negative(Minus(a, b))

\* b // (1024*1024)
FloorMiB(a) == a.mib

\* ------------------------------------------------------------------------
\* External commands

Outcomes == {"ok", "nonzero", "nostart"}

\* One invocation: program, its distinguishing argument, the path it is
\* aimed at, how it was started ("run_command" or a direct "subprocess"
\* call) and how it ended.
Cmd(prog, arg, target, via, out) ==
    [prog |-> prog, arg |-> arg, target |-> target, via |-> via, out |-> out]

\* A command about to be run through run_command with its check flag.
Req(prog, arg, target, check) ==
    [prog |-> prog, arg |-> arg, target |-> target, check |-> check]

\* Variant of Raises in which a non-zero exit is never turned into an error.
RaisesOnlyWhenNotStarted(out, check) == out = "nostart"

\* run_command / subprocess.run(check=...): a program that cannot be
\* started raises whatever the flag; a non-zero exit raises only with
\* check true.
Raises(out, check) ==
    \/ out = "nostart"
    \/ (check /\ out = "nonzero")

ErrorKind(out) ==
    IF out = "nostart" THEN "FileNotFoundError" ELSE "CalledProcessError"

\* Only run_command logs "Running command: <program and arguments>", and
\* it does so before it starts the program (utils.py:10); a direct
\* subprocess.run logs nothing.
Logged(c) == c.via = "run_command"

\* Straight-line code issuing the requests rs in order; outs[i] is how the
\* i-th program ends.  Execution stops at the first one that raises.
RECURSIVE RunSeq(_, _)
RunSeq(rs, outs) ==
    IF rs = << >> THEN [log |-> << >>, raised |-> "none"]
    ELSE LET r == Head(rs)
             o == Head(outs)
             e == Cmd(r.prog, r.arg, r.target, "run_command", o)
         IN  IF Raises(o, r.check)
             THEN [log |-> << e >>, raised |-> ErrorKind(o)]
             ELSE LET rest == RunSeq(Tail(rs), Tail(outs))
                  IN  [log |-> << e >> \o rest.log, raised |-> rest.raised]

\* The outcomes of the programs of rs, one per request.  What a program
\* that is never reached would have done cannot be observed, so only the
\* sequences that say "ok" after the first raising program are listed.
OutSeqs(rs) ==
    { o \in [1..Len(rs) -> Outcomes] :
        \A i \in 1..Len(rs) :
            (\E j \in 1..(i - 1) : Raises(o[j], rs[j].check)) => o[i] = "ok" }

\* ------------------------------------------------------------------------
\* Persistence partition layout (persistence.py:53-60, 69, 110)

Directories == << "upper", "work", "home", "root", "etc", "var/log" >>
ConfFile == "persistence.conf"
\* Variant of Required that also asks for usr/local, which persistence.conf
\* names but setup does not create.
RequiredWithUsrLocal == << "upper", "work", "persistence.conf", "usr/local" >>

Required == << "upper", "work", "persistence.conf" >>
Items == { Directories[i] : i \in 1..Len(Directories) } \cup { ConfFile }

\* ------------------------------------------------------------------------
\* PersistenceBuilder (persistence.py:33-127)

\* How the filesystem work between mount and sync ends: 0 = every mkdir and
\* the persistence.conf write succeed; i in 1..6 = mkdir of Directories[i]
\* raises; 7 = open(persistence.conf, 'w') raises; 8 = a write to the opened
\* file raises.
FsFails == 0..8

\* The directories created by the loop of persistence.py:62-65 before the
\* failure (all of them when no mkdir fails).
CreatedDirs(fsFail) ==
    { Directories[i] : i \in { j \in 1..Len(Directories) :
                                 fsFail = 0 \/ fsFail > 6 \/ j < fsFail } }

CreatedItems(fsFail) ==
    CreatedDirs(fsFail) \cup (IF fsFail \in {0, 8} THEN { ConfFile } ELSE {})

\* The `finally` clause and the exit of the TemporaryDirectory block shared
\* by both methods (persistence.py:44, 91-96 and 102, 123-127).  The umount
\* runs with check=False inside try/except-pass, so its outcome is dropped;
\* the mount is gone only if it was made and the umount exited 0.  Leaving
\* the `with` block removes the directory tree: on a directory that is still
\* a mount point that empties the mounted partition and then fails with
\* EBUSY on the mount point itself, and that OSError leaves the method.
Cleanup(body, was_mounted, umountOut) ==
    LET still == was_mounted /\ umountOut # "ok"
    IN  [ ret        |-> IF still THEN "raised" ELSE body.ret,
          content    |-> IF still THEN {} ELSE body.content,
          log        |-> body.log \o
                         << Cmd("umount", "", "tmp", "run_command", umountOut) >>,
          events     |-> body.events,
          left_mount |-> still,
          left_tmp   |-> still ]

\* Variant of SetupBody that runs the mount with check=False.
SetupBodyMountUnchecked(c, mountOut, fsFail, syncOut) ==
    LET mnt == Cmd("mount", "", "part2", "run_command", mountOut)
        snc == Cmd("sync", "", "none", "run_command", syncOut)
    IN  IF Raises(mountOut, FALSE)
        THEN [ret |-> "false", content |-> c, log |-> << mnt >>,
              events |-> {"error:setup"}]
        ELSE IF fsFail # 0
        THEN [ret |-> "false", content |-> c \cup CreatedItems(fsFail),
              log |-> << mnt >>, events |-> {"error:setup"}]
        ELSE IF Raises(syncOut, TRUE)
        THEN [ret |-> "false", content |-> c \cup CreatedItems(fsFail),
              log |-> << mnt, snc >>, events |-> {"error:setup"}]
        ELSE [ret |-> "true", content |-> c \cup CreatedItems(fsFail),
              log |-> << mnt, snc >>, events |-> {}]

\* Body of the try block of setup_persistence_structure
\* (persistence.py:47-89): mount, six mkdir, persistence.conf, sync.
SetupBody(c, mountOut, fsFail, syncOut) ==
    LET mnt == Cmd("mount", "", "part2", "run_command", mountOut)
        snc == Cmd("sync", "", "none", "run_command", syncOut)
    IN  IF Raises(mountOut, TRUE)
        THEN [ret |-> "false", content |-> c, log |-> << mnt >>,
              events |-> {"error:setup"}]
        ELSE IF fsFail # 0
        THEN [ret |-> "false", content |-> c \cup CreatedItems(fsFail),
              log |-> << mnt >>, events |-> {"error:setup"}]
        ELSE IF Raises(syncOut, TRUE)
        THEN [ret |-> "false", content |-> c \cup CreatedItems(fsFail),
              log |-> << mnt, snc >>, events |-> {"error:setup"}]
        ELSE [ret |-> "true", content |-> c \cup CreatedItems(fsFail),
              log |-> << mnt, snc >>, events |-> {}]

\* The environment choices of one setup call that can be observed: nothing
\* after a failed mount, no sync after a failed mkdir or write.
Reached(mountOut, fsFail, syncOut) ==
    /\ Raises(mountOut, TRUE) => (fsFail = 0 /\ syncOut = "ok")
    /\ fsFail # 0 => syncOut = "ok"

setup_persistence_structure(c, mountOut, fsFail, syncOut, umountOut) ==
    Cleanup(SetupBody(c, mountOut, fsFail, syncOut),
            ~Raises(mountOut, TRUE), umountOut)

\* The items of Required that are absent, in the order the loop of
\* persistence.py:111-114 tests them.
Missing(c) == { i \in 1..Len(Required) : Required[i] \notin c }

\* Body of the try block of verify_persistence (persistence.py:105-121).
VerifyBody(c, mountOut) ==
    LET mnt == Cmd("mount", "", "part2", "run_command", mountOut)
    IN  IF Raises(mountOut, TRUE)
        THEN [ret |-> "false", content |-> c, log |-> << mnt >>,
              events |-> {"error:verify"}]
        ELSE IF Missing(c) # {}
        THEN [ret |-> "false", content |-> c, log |-> << mnt >>,
              events |-> {"error:missing"}]
        ELSE [ret |-> "true", content |-> c, log |-> << mnt >>,
              events |-> {}]

verify_persistence(c, mountOut, umountOut) ==
    Cleanup(VerifyBody(c, mountOut), ~Raises(mountOut, TRUE), umountOut)

\* ------------------------------------------------------------------------
\* PartitionManager (partition.py:50-236)

\* _is_block_device: `test -b` exits 0 exactly on a block device; a probe
\* that cannot be started is caught and counts as "not a block device".
ProbeOutcome(block, started) ==
    IF ~started THEN "nostart" ELSE IF block THEN "ok" ELSE "nonzero"

_is_block_device(block, started) == ProbeOutcome(block, started) = "ok"

\* The number of lines of `mount` output that mention the device when n
\* entries of the mount table do: all of them when the query exits 0, any
\* number up to n when it exits non-zero, no output when it cannot start.
MountLines(n, queryOut) ==
    CASE queryOut = "ok"      -> { n }
      [] queryOut = "nonzero" -> 0..n
      [] OTHER                -> { 0 }

UmountRequests(k) == [i \in 1..k |-> Req("umount", "", "device", FALSE)]

\* unmount_all: the mount query with check=False, then one umount with
\* check=False per matching line.  Every exception inside the method is
\* caught by the one try block and logged as a warning.
unmount_all(queryOut, k, uouts) ==
    LET q    == Cmd("mount", "", "table", "run_command", queryOut)
        loop == RunSeq(UmountRequests(k), uouts)
    IN  IF Raises(queryOut, FALSE)
        THEN [log |-> << q >>, raised |-> "none", events |-> {"warning:unmount"}]
        ELSE [log |-> << q >> \o loop.log, raised |-> "none",
              events |-> IF loop.raised # "none" THEN {"warning:unmount"} ELSE {}]

\* wipe_device: wipefs in one try block; first-MiB dd, size query and
\* last-MiB dd in a second one.  Both except clauses only log a warning.
wipe_device(o) ==
    LET b1 == RunSeq(<< Req("wipefs", "-a", "device", FALSE) >>, << o[1] >>)
        b2 == RunSeq(<< Req("dd", "zero_first", "device", FALSE),
                        Req("blockdev", "--getsize64", "device", TRUE),
                        Req("dd", "zero_last", "device", FALSE) >>,
                     << o[2], o[3], o[4] >>)
    IN  [log |-> b1.log \o b2.log, raised |-> "none",
         events |-> (IF b1.raised # "none" THEN {"warning:wipefs"} ELSE {})
                    \cup (IF b2.raised # "none" THEN {"warning:dd_wipe"} ELSE {})]

\* get_device_info: lsblk with check=False inside try/except; the result is
\* None unless the query exits 0.
get_device_info(o) ==
    LET r == RunSeq(<< Req("lsblk", "device", "device", FALSE) >>, << o >>)
    IN  [log |-> r.log, raised |-> "none",
         events |-> IF r.raised # "none" THEN {"error:device_info"} ELSE {}]

\* create_partition_table: no try block; the first six commands run with
\* check=True, the rescan with check=False.
TableCommands ==
    << Req("blockdev", "--getsize64", "device", TRUE),
       Req("parted", "mklabel", "device", TRUE),
       Req("parted", "mkpart1", "device", TRUE),
       Req("parted", "set_boot", "device", TRUE),
       Req("parted", "mkpart2", "device", TRUE),
       Req("sync", "", "none", TRUE),
       Req("partprobe", "", "device", FALSE) >>

create_partition_table(o) ==
    LET r == RunSeq(TableCommands, o)
    IN  [log |-> r.log, raised |-> r.raised, events |-> {}]

\* format_partitions: mkfs.vfat on partition 1, mkfs.ext4 on partition 2,
\* sync; all with check=True and no try block.
\* Variant of FormatCommands that does not check the FAT32 format.
FormatCommandsUnchecked ==
    << Req("mkfs.vfat", "USBBOOT", "part1", FALSE),
       Req("mkfs.ext4", "persistence", "part2", TRUE),
       Req("sync", "", "none", TRUE) >>

FormatCommands ==
    << Req("mkfs.vfat", "USBBOOT", "part1", TRUE),
       Req("mkfs.ext4", "persistence", "part2", TRUE),
       Req("sync", "", "none", TRUE) >>

format_partitions(o) ==
    LET r == RunSeq(FormatCommands, o)
    IN  [log |-> r.log, raised |-> r.raised, events |-> {}]

\* get_partition_info(n): lsblk with check=False inside try/except.
get_partition_info(part, o) ==
    LET r == RunSeq(<< Req("lsblk", "part", part, FALSE) >>, << o >>)
    IN  [log |-> r.log, raised |-> "none",
         events |-> IF r.raised # "none" THEN {"error:partition_info"} ELSE {}]

\* A new ext4 filesystem on partition 2 holds none of the persistence items.
AfterFormat(c, log) ==
    IF \E i \in 1..Len(log) : log[i].prog = "mkfs.ext4" /\ log[i].out = "ok"
    THEN {} ELSE c

Unmounted(log) ==
    Cardinality({ i \in 1..Len(log) : log[i].prog = "umount" /\ log[i].out = "ok" })

\* ------------------------------------------------------------------------
\* Flasher (core.py:180-335)

\* Variant of PersistenceSteps that formats before the table is written.
PersistenceStepsFormatFirst ==
    << "pm_init", "unmount_all", "wipe_device", "get_device_info",
       "format_partitions", "create_partition_table", "copy_image", "sync",
       "setup_persistence", "verify_persistence", "final_sync", "report" >>

\* The statements of _flash_with_persistence in program order.
PersistenceSteps ==
    << "pm_init", "unmount_all", "wipe_device", "get_device_info",
       "create_partition_table", "format_partitions", "copy_image", "sync",
       "setup_persistence", "verify_persistence", "final_sync", "report" >>

StepIndex(step) == CHOOSE i \in 1..Len(PersistenceSteps) : PersistenceSteps[i] = step

\* Where control goes when `step` returns normally.
After(step) ==
    IF StepIndex(step) = Len(PersistenceSteps) THEN "done"
    ELSE PersistenceSteps[StepIndex(step) + 1]

\* A step that has run the commands of r.log and either returned or raised
\* r.raised out of flash (nothing in flash catches an exception).
Tag(log, step) == [i \in 1..Len(log) |-> log[i] @@ [step |-> step]]

Finish(step, r) ==
    /\ cmds' = cmds \o Tag(r.log, step)
    /\ steps' = Append(steps, step)
    /\ warnings' = warnings \cup r.events
    /\ IF r.raised = "none"
       THEN /\ pc' = After(step)
            /\ status' = IF After(step) = "done" THEN "success" ELSE status
            /\ UNCHANGED << error, failed_at >>
       ELSE /\ pc' = "done"
            /\ status' = "failed"
            /\ error' = r.raised
            /\ failed_at' = step

\* Variant of FlashChecks without the device-path check.
FlashChecksImageOnly(img, dev) ==
    IF ~img THEN "FileNotFoundError" ELSE "none"

\* The two existence checks at the head of flash() (core.py:190-195).
FlashChecks(img, dev) ==
    IF ~img THEN "FileNotFoundError"
    ELSE IF ~dev THEN "FileNotFoundError"
    ELSE "none"

\* Variant of Dispatch that ignores the persistence flag.
DispatchAlwaysSimple(persist) == "flash_simple"

\* The mode chosen by the persistence flag (core.py:203-206).
Dispatch(persist) == IF persist THEN PersistenceSteps[1] ELSE "flash_simple"

\* flash(): the existence checks, the overwrite warning, the dispatch.
Flash ==
    /\ pc = "flash"
    /\ steps' = Append(steps, "flash")
    /\ IF FlashChecks(image_exists, device_exists) # "none"
       THEN /\ pc' = "done"
            /\ status' = "failed"
            /\ error' = FlashChecks(image_exists, device_exists)
            /\ failed_at' = "flash"
            /\ UNCHANGED warnings
       ELSE /\ pc' = Dispatch(persistence_enabled)
            /\ warnings' = warnings \cup {"warning:overwrite"}
            /\ UNCHANGED << status, error, failed_at >>
    /\ UNCHANGED << envVars, offVars, mounts, cmds, pbVars, calls, system >>

\* PartitionManager(self.device_path): the block-device probe.
PMInit ==
    /\ pc = "pm_init"
    /\ \E started \in BOOLEAN :
          Finish("pm_init",
                 [log |-> << Cmd("test", "-b", "device", "subprocess",
                                 ProbeOutcome(is_block, started)) >>,
                  raised |-> IF _is_block_device(is_block, started)
                             THEN "none" ELSE "ValueError",
                  events |-> {}])
    /\ UNCHANGED << envVars, offVars, mounts, pbVars, calls, system >>

UnmountAll ==
    /\ pc = "unmount_all"
    /\ \E queryOut \in Outcomes :
       \E k \in MountLines(mounts, queryOut) :
       \E uouts \in OutSeqs(UmountRequests(k)) :
          LET r == unmount_all(queryOut, k, uouts)
          IN  /\ Finish("unmount_all", r)
              /\ mounts' = mounts - Unmounted(r.log)
    /\ UNCHANGED << envVars, offVars, pbVars, calls, system >>

WipeDevice ==
    /\ pc = "wipe_device"
    /\ \E o \in [1..4 -> Outcomes] :
          /\ Raises(o[2], FALSE) => o[3] = "ok"
          /\ (Raises(o[2], FALSE) \/ Raises(o[3], TRUE)) => o[4] = "ok"
          /\ Finish("wipe_device", wipe_device(o))
    /\ UNCHANGED << envVars, offVars, mounts, pbVars, calls, system >>

GetDeviceInfo ==
    /\ pc = "get_device_info"
    /\ \E o \in Outcomes : Finish("get_device_info", get_device_info(o))
    /\ UNCHANGED << envVars, offVars, mounts, pbVars, calls, system >>

CreatePartitionTable ==
    /\ pc = "create_partition_table"
    /\ \E o \in OutSeqs(TableCommands) :
          Finish("create_partition_table", create_partition_table(o))
    /\ UNCHANGED << envVars, offVars, mounts, pbVars, calls, system >>

FormatPartitions ==
    /\ pc = "format_partitions"
    /\ \E o \in OutSeqs(FormatCommands) :
          LET r == format_partitions(o)
          IN  /\ Finish("format_partitions", r)
              /\ content' = AfterFormat(content, r.log)
    /\ UNCHANGED << envVars, offVars, mounts, mounted, tmpdirs, setup_result,
                    verify_result, last, calls, system >>

\* subprocess.run(dd ..., check=True) onto partition 1 (core.py:291-299).
CopyImage ==
    /\ pc = "copy_image"
    /\ \E o \in Outcomes :
          Finish("copy_image",
                 [log |-> << Cmd("dd", "image", "part1", "subprocess", o) >>,
                  raised |-> IF Raises(o, TRUE) THEN ErrorKind(o) ELSE "none",
                  events |-> {}])
    /\ UNCHANGED << envVars, offVars, mounts, pbVars, calls, system >>

\* run_command(['sync']) after the copy (core.py:300).
SyncAfterCopy ==
    /\ pc = "sync"
    /\ \E o \in Outcomes :
          Finish("sync", RunSeq(<< Req("sync", "", "none", TRUE) >>, << o >>)
                         @@ [events |-> {}])
    /\ UNCHANGED << envVars, offVars, mounts, pbVars, calls, system >>

\* Variant of SetupVerdict in which a false result is only logged.
SetupVerdictLenient(ret) ==
    IF ret = "raised" THEN "OSError" ELSE "none"

\* What flash does with the result of setup_persistence_structure
\* (core.py:307-311): false raises RuntimeError, an exception passes through.
SetupVerdict(ret) ==
    CASE ret = "true"  -> "none"
      [] ret = "false" -> "RuntimeError"
      [] OTHER         -> "OSError"

\* Variant of VerifyVerdict in which a false result aborts the run.
VerifyVerdictFatal(ret) ==
    CASE ret = "true"  -> "none"
      [] ret = "false" -> "RuntimeError"
      [] OTHER         -> "OSError"

\* What flash does with the result of verify_persistence (core.py:315-318):
\* false is logged as a warning, an exception passes through.
VerifyVerdict(ret) ==
    IF ret = "raised" THEN "OSError" ELSE "none"

\* Bookkeeping of one PersistenceBuilder call `op` with result r, made on
\* partition content `pre` under the environment choices `env`.
Builder(op, pre, env, r) ==
    /\ last' = [op |-> op, pre |-> pre, env |-> env, ret |-> r.ret,
                log |-> r.log, left_mount |-> r.left_mount,
                left_tmp |-> r.left_tmp]
    /\ content' = r.content
    /\ mounted' = mounted + (IF r.left_mount THEN 1 ELSE 0)
    /\ tmpdirs' = tmpdirs + (IF r.left_tmp THEN 1 ELSE 0)

\* core.py:302-311: a false result raises RuntimeError; an exception of the
\* builder passes through.
SetupPersistence ==
    /\ pc = "setup_persistence"
    /\ \E mountOut \in Outcomes, fsFail \in FsFails, syncOut \in Outcomes,
          umountOut \in Outcomes :
          LET r == setup_persistence_structure(content, mountOut, fsFail,
                                               syncOut, umountOut)
          IN  /\ Reached(mountOut, fsFail, syncOut)
              /\ Builder("setup", content,
                         << mountOut, fsFail, syncOut, umountOut >>, r)
              /\ setup_result' = r.ret
              /\ Finish("setup_persistence",
                        [log |-> r.log,
                         raised |-> SetupVerdict(r.ret),
                         events |-> r.events \cup
                                    (IF r.ret = "false"
                                     THEN {"error:persistence_setup_failed"}
                                     ELSE {})])
    /\ UNCHANGED << envVars, offVars, mounts, verify_result, calls, system >>

\* core.py:313-318: a false result is only logged as a warning.
VerifyPersistence ==
    /\ pc = "verify_persistence"
    /\ \E mountOut \in Outcomes, umountOut \in Outcomes :
          LET r == verify_persistence(content, mountOut, umountOut)
          IN  /\ Builder("verify", content, << mountOut, 0, "ok", umountOut >>, r)
              /\ verify_result' = r.ret
              /\ Finish("verify_persistence",
                        [log |-> r.log,
                         raised |-> VerifyVerdict(r.ret),
                         events |-> r.events \cup
                                    (IF r.ret = "false"
                                     THEN {"warning:verification_failed"}
                                     ELSE {})])
    /\ UNCHANGED << envVars, offVars, mounts, setup_result, calls, system >>

\* run_command(['sync']) (core.py:321).
FinalSync ==
    /\ pc = "final_sync"
    /\ \E o \in Outcomes :
          Finish("final_sync", RunSeq(<< Req("sync", "", "none", TRUE) >>, << o >>)
                               @@ [events |-> {}])
    /\ UNCHANGED << envVars, offVars, mounts, pbVars, calls, system >>

\* core.py:323-335: the closing report with both get_partition_info calls.
Report ==
    /\ pc = "report"
    /\ \E o1 \in Outcomes, o2 \in Outcomes :
          LET r1 == get_partition_info("part1", o1)
              r2 == get_partition_info("part2", o2)
          IN  Finish("report", [log |-> r1.log \o r2.log, raised |-> "none",
                                events |-> r1.events \cup r2.events])
    /\ UNCHANGED << envVars, offVars, mounts, pbVars, calls, system >>

\* _flash_simple (core.py:208-244): the platform's unmount with check=False
\* and no try block, the dd through subprocess.run(check=True), and on Linux
\* a sync.
Systems == {"Linux", "Darwin", "Other"}

SimpleUnmount(sys) ==
    CASE sys = "Linux"  -> << Req("umount", "glob", "device", FALSE) >>
      [] sys = "Darwin" -> << Req("diskutil", "unmountDisk", "device", FALSE) >>
      [] OTHER          -> << >>

DdArgs(sys) == IF sys = "Darwin" THEN "bs=1m conv=sync" ELSE "bs=4M conv=fsync"

_flash_simple(sys, o) ==
    LET pre  == RunSeq(SimpleUnmount(sys), << o[1] >>)
        dd   == Cmd("dd", DdArgs(sys), "device", "subprocess", o[2])
        post == RunSeq(IF sys = "Linux" THEN << Req("sync", "", "none", TRUE) >>
                       ELSE << >>, << o[3] >>)
    IN  IF pre.raised # "none"
        THEN [log |-> pre.log, raised |-> pre.raised, events |-> {}]
        ELSE IF Raises(o[2], TRUE)
        THEN [log |-> pre.log \o << dd >>, raised |-> ErrorKind(o[2]),
              events |-> {}]
        ELSE [log |-> pre.log \o << dd >> \o post.log, raised |-> post.raised,
              events |-> {}]

FlashSimple ==
    /\ pc = "flash_simple"
    /\ \E sys \in Systems, o \in [1..3 -> Outcomes] :
          LET r == _flash_simple(sys, o)
          IN  /\ system' = sys
              /\ cmds' = cmds \o Tag(r.log, "flash_simple")
              /\ steps' = Append(steps, "flash_simple")
              /\ warnings' = warnings \cup r.events
              /\ pc' = "done"
              /\ IF r.raised = "none"
                 THEN /\ status' = "success"
                      /\ UNCHANGED << error, failed_at >>
                 ELSE /\ status' = "failed"
                      /\ error' = r.raised
                      /\ failed_at' = "flash_simple"
    /\ UNCHANGED << envVars, offVars, mounts, pbVars, calls >>

\* ------------------------------------------------------------------------
\* One run of Flasher.flash on an arbitrary image path and device path.

\* No sizing computation is in progress.
SizeIdle ==
    /\ image_size = Bytes(0, 0)
    /\ total_size = Bytes(0, 0)
    /\ persistence_size_mb = -1
    /\ boot_size_mb = 0
    /\ sizes = << >>
    /\ table_cmds = << >>
    /\ size_pc = "idle"

\* No PartitionManager is resolving partition paths.
PathIdle ==
    /\ device_path = << >>
    /\ used = {}

\* No run_command call is under study.
RunIdle ==
    /\ rc_args = << >>
    /\ rc_result = << >>

\* main() is not running.
CliIdle ==
    /\ cli_args = << >>
    /\ cli_pc = "idle"
    /\ exit_code = -1
    /\ cli_trace = << >>

\* No library function is being called directly.
ToolIdle ==
    /\ call = << >>
    /\ returned = << >>

NoCall == [op |-> "none", pre |-> {}, env |-> << "ok", 0, "ok", "ok" >>,
           ret |-> "none", log |-> << >>, left_mount |-> FALSE,
           left_tmp |-> FALSE]

\* No flash run and no PersistenceBuilder call is in progress.
FlashIdle ==
    /\ persistence_enabled = TRUE
    /\ image_exists = TRUE
    /\ device_exists = TRUE
    /\ is_block = TRUE
    /\ mounts = 0
    /\ pc = "idle"
    /\ status = "running"
    /\ error = "none"
    /\ failed_at = "none"
    /\ cmds = << >>
    /\ steps = << >>
    /\ warnings = {}
    /\ content = {}
    /\ mounted = 0
    /\ tmpdirs = 0
    /\ setup_result = "none"
    /\ verify_result = "none"
    /\ last = NoCall
    /\ calls = 0
    /\ system = "unread"

Init ==
    /\ persistence_enabled \in BOOLEAN
    /\ image_exists \in BOOLEAN
    /\ device_exists \in BOOLEAN
    /\ is_block \in BOOLEAN
    /\ is_block => device_exists
    /\ mounts \in 0..MaxMounts
    /\ pc = "flash"
    /\ status = "running"
    /\ error = "none"
    /\ failed_at = "none"
    /\ cmds = << >>
    /\ steps = << >>
    /\ warnings = {}
    /\ content = Items
    /\ mounted = 0
    /\ tmpdirs = 0
    /\ setup_result = "none"
    /\ verify_result = "none"
    /\ last = NoCall
    /\ calls = 0
    /\ system = "unread"
    /\ SizeIdle
    /\ PathIdle
    /\ RunIdle
    /\ CliIdle
    /\ ToolIdle

Next ==
    \/ Flash
    \/ FlashSimple
    \/ PMInit
    \/ UnmountAll
    \/ WipeDevice
    \/ GetDeviceInfo
    \/ CreatePartitionTable
    \/ FormatPartitions
    \/ CopyImage
    \/ SyncAfterCopy
    \/ SetupPersistence
    \/ VerifyPersistence
    \/ FinalSync
    \/ Report

Spec == Init /\ [][Next]_vars

\* ------------------------------------------------------------------------
\* A caller that uses PersistenceBuilder directly on a partition holding any
\* subset of the persistence items.  cmds, steps and warnings describe a
\* flash run; the commands of a direct call are in last.log.

InitPB ==
    /\ persistence_enabled = TRUE
    /\ image_exists = TRUE
    /\ device_exists = TRUE
    /\ is_block = TRUE
    /\ mounts = 0
    /\ pc = "builder"
    /\ status = "running"
    /\ error = "none"
    /\ failed_at = "none"
    /\ cmds = << >>
    /\ steps = << >>
    /\ warnings = {}
    /\ content \in SUBSET Items
    /\ mounted = 0
    /\ tmpdirs = 0
    /\ setup_result = "none"
    /\ verify_result = "none"
    /\ last = NoCall
    /\ calls = 0
    /\ system = "unread"
    /\ SizeIdle
    /\ PathIdle
    /\ RunIdle
    /\ CliIdle
    /\ ToolIdle

CallSetup ==
    /\ pc = "builder"
    /\ calls < MaxCalls
    /\ \E mountOut \in Outcomes, fsFail \in FsFails, syncOut \in Outcomes,
          umountOut \in Outcomes :
          LET r == setup_persistence_structure(content, mountOut, fsFail,
                                               syncOut, umountOut)
          IN  /\ Reached(mountOut, fsFail, syncOut)
              /\ Builder("setup", content,
                         << mountOut, fsFail, syncOut, umountOut >>, r)
              /\ setup_result' = r.ret
    /\ calls' = calls + 1
    /\ UNCHANGED << envVars, offVars, mounts, pc, status, error, failed_at, cmds, steps,
                    warnings, verify_result, system >>

CallVerify ==
    /\ pc = "builder"
    /\ calls < MaxCalls
    /\ \E mountOut \in Outcomes, umountOut \in Outcomes :
          LET r == verify_persistence(content, mountOut, umountOut)
          IN  /\ Builder("verify", content, << mountOut, 0, "ok", umountOut >>, r)
              /\ verify_result' = r.ret
    /\ calls' = calls + 1
    /\ UNCHANGED << envVars, offVars, mounts, pc, status, error, failed_at, cmds, steps,
                    warnings, setup_result, system >>

NextPB == CallSetup \/ CallVerify

SpecPB == InitPB /\ [][NextPB]_vars

\* ------------------------------------------------------------------------
\* Partition sizing: the data path of _flash_with_persistence from the image
\* size to the parted arguments (core.py:250-281, partition.py:37-47,
\* 149-189), every command succeeding, and PartitionScheme.calculate_sizes
\* called directly on a scheme of the caller's choosing.

\* image sizes 0..MaxImageMiB MiB, whole or with a fraction of a MiB
MaxImageMiB == 6

\* explicit persistence sizes -1..MaxPersistenceMb MB
MaxPersistenceMb == 2

Rems == {0, 1, MiB - 1}

ImageSizes ==
    { Bytes(m, r) : m \in 0..MaxImageMiB, r \in Rems } \cup { FromMiB(500) }

DeviceSizes ==
    { Bytes(m, r) : m \in {64, 150, 205, 206, 8192}, r \in {0, 512} }

PersistenceSizes == (-1..MaxPersistenceMb) \cup {4000}

DirectBootSizes == {1, 2000}

\* Variant of BootSizeMb that rounds the 20% headroom up.
BootSizeMbCeil(image) ==
    LET six   == 6 * image.mib + (6 * image.rem) \div MiB
        exact == (6 * image.rem) % MiB = 0 /\ six % 5 = 0
    IN  (six \div 5) + (IF exact THEN 0 ELSE 1) + 100

\* int((image_size / (1024**2)) * 1.2) + 100 (core.py:272).  int() truncates,
\* and for a size of m MiB + r bytes the truncated product is
\* floor((6m + 6r/2^20) / 5): the double product is off by less than
\* 1/(5*2^20), the least distance of an inexact quotient from an integer, and
\* an exact quotient is reproduced exactly.
BootSizeMb(image) ==
    ((6 * image.mib + (6 * image.rem) \div MiB) \div 5) + 100

\* Variant of calculate_sizes that leaves no buffer after the partitions.
calculate_sizes_no_buffer(boot_mb, pers_mb, total) ==
    << FromMiB(boot_mb),
       IF pers_mb = -1 THEN Minus(total, FromMiB(boot_mb)) ELSE FromMiB(pers_mb) >>

\* PartitionScheme.calculate_sizes (partition.py:37-47).
calculate_sizes(boot_mb, pers_mb, total) ==
    LET boot_bytes == FromMiB(boot_mb)
    IN  << boot_bytes,
           IF pers_mb = -1
           THEN Minus(Minus(total, boot_bytes), FromMiB(100))
           ELSE FromMiB(pers_mb) >>

\* Variant of BootEndMb that forgets the 1 MiB alignment offset.
BootEndMbNoOffset(boot_size) == FloorMiB(boot_size)

\* boot_end_mb = 1 + (boot_size // (1024*1024)) (partition.py:168).
BootEndMb(boot_size) == 1 + FloorMiB(boot_size)

At(n, unit) == [n |-> n, unit |-> unit]
Nowhere == At(0, "")

\* The commands of create_partition_table with the arguments that place
\* the partitions (partition.py:154-187), in the order of TableCommands.
TableArgv(boot_end_mb) ==
    [ i \in 1..Len(TableCommands) |->
        LET c == TableCommands[i]
        IN  CASE c.arg = "mkpart1" ->
                   [prog |-> c.prog, arg |-> c.arg, fs |-> "fat32",
                    start |-> At(1, "MiB"), end |-> At(boot_end_mb, "MiB")]
              [] c.arg = "mkpart2" ->
                   [prog |-> c.prog, arg |-> c.arg, fs |-> "ext4",
                    start |-> At(boot_end_mb, "MiB"), end |-> At(100, "%")]
              [] c.arg = "mklabel" ->
                   [prog |-> c.prog, arg |-> c.arg, fs |-> "gpt",
                    start |-> Nowhere, end |-> Nowhere]
              [] OTHER ->
                   [prog |-> c.prog, arg |-> c.arg, fs |-> "",
                    start |-> Nowhere, end |-> Nowhere] ]

\* The byte offset parted derives from a position on a device of `total`
\* bytes: k MiB is k * 2^20, 100% is the end of the device.
Offset(pos, total) ==
    IF pos.unit = "%" THEN total ELSE FromMiB(pos.n)

InitSize ==
    /\ FlashIdle
    /\ PathIdle
    /\ RunIdle
    /\ CliIdle
    /\ ToolIdle
    /\ total_size \in DeviceSizes
    /\ persistence_size_mb \in PersistenceSizes
    /\ sizes = << >>
    /\ table_cmds = << >>
    /\ \/ /\ size_pc = "flash"
          /\ image_size \in ImageSizes
          /\ boot_size_mb = 0
       \/ /\ size_pc = "direct"
          /\ image_size = Bytes(0, 0)
          /\ boot_size_mb \in DirectBootSizes

flashVars == << envVars, mounts, pc, status, error, failed_at, cmds, steps,
                warnings, pbVars, calls, system >>

\* The variables outside the sizing computation.
sizeOff == << flashVars, pathVars, runVars, cliVars, toolVars >>

\* Variant of ComputeBootSize that sizes the boot partition at the whole
\* MiB of the image, without factor and margin.
ComputeBootSizeWithoutHeadroom ==
    /\ size_pc = "flash"
    /\ boot_size_mb' = FloorMiB(image_size)
    /\ size_pc' = "scheme"
    /\ UNCHANGED << sizeOff, image_size, total_size, persistence_size_mb,
                    sizes, table_cmds >>

\* core.py:270-277: the boot partition size and the scheme.
ComputeBootSize ==
    /\ size_pc = "flash"
    /\ boot_size_mb' = BootSizeMb(image_size)
    /\ size_pc' = "scheme"
    /\ UNCHANGED << sizeOff, image_size, total_size, persistence_size_mb,
                    sizes, table_cmds >>

\* create_partition_table(scheme): the size query, calculate_sizes and the
\* six commands that follow.
CreateTable ==
    /\ size_pc = "scheme"
    /\ LET r == calculate_sizes(boot_size_mb, persistence_size_mb, total_size)
       IN  /\ sizes' = r
           /\ table_cmds' = TableArgv(BootEndMb(r[1]))
    /\ size_pc' = "tabled"
    /\ UNCHANGED << sizeOff, image_size, total_size, persistence_size_mb,
                    boot_size_mb >>

\* scheme.calculate_sizes(total_size_bytes) called on its own.
CalculateSizes ==
    /\ size_pc = "direct"
    /\ sizes' = calculate_sizes(boot_size_mb, persistence_size_mb, total_size)
    /\ size_pc' = "returned"
    /\ UNCHANGED << sizeOff, image_size, total_size, persistence_size_mb,
                    boot_size_mb, table_cmds >>

NextSize == ComputeBootSize \/ CreateTable \/ CalculateSizes

SpecSize == InitSize /\ [][NextSize]_vars

\* ------------------------------------------------------------------------
\* Partition device nodes (partition.py:208-214).  Paths are sequences of
\* characters, so that the marker test is a substring search.

MaxPartition == 3

\* Whole-device paths handed to a PartitionManager.
DevicePaths ==
    { << "/", "d", "e", "v", "/", "s", "d", "b" >>,
      << "/", "d", "e", "v", "/", "s", "d", "a" >>,
      << "/", "d", "e", "v", "/", "v", "d", "b" >>,
      << "/", "d", "e", "v", "/", "l", "o", "o", "p", "0" >>,
      << "/", "d", "e", "v", "/", "m", "d", "0" >>,
      << "/", "d", "e", "v", "/", "n", "v", "m", "e", "0", "n", "1" >>,
      << "/", "d", "e", "v", "/", "n", "v", "m", "e", "1", "n", "2" >>,
      << "/", "d", "e", "v", "/", "m", "m", "c", "b", "l", "k", "0" >>,
      << "/", "d", "e", "v", "/", "m", "m", "c", "b", "l", "k", "1" >>,
      << "/", "d", "e", "v", "/", "n", "v", "m", "0" >>,
      << "/", "d", "e", "v", "/", "m", "m", "c", "b", "l", "0" >>,
      << "/", "d", "e", "v", "/", "d", "i", "s", "k", "/", "b", "y", "-", "i", "d", "/", "n", "v", "m", "e", "-", "a" >>,
      << "/", "d", "e", "v", "/", "N", "V", "M", "E", "0" >> }

\* Partition numbers asked for: those of the table, and two with several
\* digits.
PartitionNumbers == (1..MaxPartition) \cup {12, 128}

Digit(d) == << "0", "1", "2", "3", "4", "5", "6", "7", "8", "9" >>[d + 1]

\* str(n) for n >= 0, as the f-string renders it.
RECURSIVE str(_)
str(n) == IF n < 10 THEN << Digit(n) >>
          ELSE Append(str(n \div 10), Digit(n % 10))

\* pat in s
Contains(pat, s) ==
    \E i \in 1..(Len(s) - Len(pat) + 1) :
        SubSeq(s, i, i + Len(pat) - 1) = pat

_get_partition_path_nvme_only(dev, n) ==
    IF Contains(<< "n", "v", "m", "e" >>, dev)
    THEN dev \o << "p" >> \o str(n)
    ELSE dev \o str(n)

_get_partition_path(dev, n) ==
    IF \/ Contains(<< "n", "v", "m", "e" >>, dev)
       \/ Contains(<< "m", "m", "c", "b", "l", "k" >>, dev)
    THEN dev \o << "p" >> \o str(n)
    ELSE dev \o str(n)

\* One use of a partition node: who addressed partition n, and by what path.
Use(by, n) == [by |-> by, n |-> n, path |-> _get_partition_path(device_path, n)]

InitPath ==
    /\ FlashIdle
    /\ SizeIdle
    /\ RunIdle
    /\ CliIdle
    /\ ToolIdle
    /\ device_path \in DevicePaths
    /\ used = {}

pathOff == << flashVars, sizeVars, runVars, cliVars, toolVars >>

\* format_partitions resolves partitions 1 and 2 (partition.py:194-195).
FormatPaths ==
    /\ device_path # << >>
    /\ used' = used \cup {Use("format_partitions", 1), Use("format_partitions", 2)}
    /\ used' # used
    /\ UNCHANGED << pathOff, device_path >>

\* The image copy resolves partition 1 (core.py:289).
CopyImagePath ==
    /\ device_path # << >>
    /\ used' = used \cup {Use("copy_image", 1)}
    /\ used' # used
    /\ UNCHANGED << pathOff, device_path >>

\* Persistence setup and verification resolve partition 2 (core.py:304).
PersistencePath ==
    /\ device_path # << >>
    /\ used' = used \cup {Use("setup_persistence", 2)}
    /\ used' # used
    /\ UNCHANGED << pathOff, device_path >>

\* get_partition_info(n) resolves partition n (partition.py:218).
PartitionInfoPath ==
    /\ device_path # << >>
    /\ \E n \in PartitionNumbers :
          used' = used \cup {Use("get_partition_info", n)}
    /\ used' # used
    /\ UNCHANGED << pathOff, device_path >>

NextPath == FormatPaths \/ CopyImagePath \/ PersistencePath \/ PartitionInfoPath

SpecPath == InitPath /\ [][NextPath]_vars

\* ------------------------------------------------------------------------
\* One call of run_command (utils.py:8-23) on an arbitrary program.

MaxExitCode == 2

\* Exit codes of a started program; a negative code is death by a signal.
ExitCodes == {-9} \cup (0..MaxExitCode)

Texts == {"", "text"}

\* What the environment does with the program: it cannot be started, or it
\* runs and ends with an exit code and its two captured streams.
Procs ==
    {[started |-> FALSE, returncode |-> 0, stdout |-> "", stderr |-> ""]}
    \cup [started : {TRUE}, returncode : ExitCodes, stdout : Texts,
          stderr : Texts]

Argvs == { << "sync" >>, << "umount", "/dev/sdb1" >> }

OutcomeOf(proc) ==
    IF ~proc.started THEN "nostart"
    ELSE IF proc.returncode = 0 THEN "ok"
    ELSE "nonzero"

Captured(proc) ==
    [returncode |-> proc.returncode, stdout |-> proc.stdout,
     stderr |-> proc.stderr]

LogLine(level, msg, text) == [level |-> level, msg |-> msg, text |-> text]

\* Variant of run_command that passes check=True whatever the caller asked.
run_command_always_checked(cmd, check, proc) ==
    LET out == OutcomeOf(proc)
        running == LogLine("info", "Running command", cmd)
    IN  IF ~Raises(out, TRUE)
        THEN [raised |-> "none", result |-> Captured(proc),
              carried |-> "none", log |-> << running >>]
        ELSE IF out = "nonzero"
        THEN [raised |-> ErrorKind(out), result |-> "none",
              carried |-> Captured(proc),
              log |-> << running,
                         LogLine("error", "Command failed", proc.stderr) >>]
        ELSE [raised |-> ErrorKind(out), result |-> "none",
              carried |-> "none", log |-> << running >>]

\* run_command(cmd, check=check): the CompletedProcess returned, or the
\* exception raised with what it carries, and the lines logged.  Only
\* CalledProcessError is caught, logged and raised again.
run_command(cmd, check, proc) ==
    LET out == OutcomeOf(proc)
        running == LogLine("info", "Running command", cmd)
    IN  IF ~Raises(out, check)
        THEN [raised |-> "none", result |-> Captured(proc),
              carried |-> "none", log |-> << running >>]
        ELSE IF out = "nonzero"
        THEN [raised |-> ErrorKind(out), result |-> "none",
              carried |-> Captured(proc),
              log |-> << running,
                         LogLine("error", "Command failed", proc.stderr) >>]
        ELSE [raised |-> ErrorKind(out), result |-> "none",
              carried |-> "none", log |-> << running >>]

InitRun ==
    /\ FlashIdle
    /\ SizeIdle
    /\ PathIdle
    /\ CliIdle
    /\ ToolIdle
    /\ rc_args \in [cmd : Argvs, check : BOOLEAN, proc : Procs]
    /\ rc_result = << >>

runOff == << flashVars, sizeVars, pathVars, cliVars, toolVars >>

RunCommand ==
    /\ rc_args # << >>
    /\ rc_result = << >>
    /\ rc_result' = run_command(rc_args.cmd, rc_args.check, rc_args.proc)
    /\ UNCHANGED << runOff, rc_args >>

NextRun == RunCommand

SpecRun == InitRun /\ [][NextRun]_vars

\* ------------------------------------------------------------------------
\* main() with the flash command (cli.py:23-116).

MaxPersistenceArg == 1

\* What the operator types at the prompt, as character strings.
Answers ==
    { << "y" >>,
      << "Y" >>,
      << "n" >>,
      << "N" >>,
      << >>,
      << "y", "e", "s" >>,
      << "Y", "E", "S" >>,
      << " ", "y" >> }

\* --persistence-size: absent (None) or the integer given.
PersistenceSizeArgs ==
    {[given |-> FALSE, value |-> 0]}
    \cup [given : {TRUE}, value : {-2} \cup (0..MaxPersistenceArg)]

CliArgs ==
    [config_ok : BOOLEAN, persistence : BOOLEAN,
     persistence_size : PersistenceSizeArgs, answer : Answers]

LowerChar(c) ==
    CASE c = "Y" -> "y"
      [] c = "N" -> "n"
      [] c = "E" -> "e"
      [] c = "S" -> "s"
      [] OTHER   -> c

\* str.lower()
Lower(t) == [i \in 1..Len(t) |-> LowerChar(t[i])]

\* Truth value of args.persistence_size.
Truthy(size) == size.given /\ size.value # 0

\* Variant of Confirmed that goes on unless the answer is 'n'.
ConfirmedUnlessNo(answer) == Lower(answer) # << "n" >>

\* not (confirm.lower() != 'y')
Confirmed(answer) == Lower(answer) = << "y" >>

\* What main() prints between the parse and the prompt (cli.py:87-96).
Announcement(a) ==
    << "print:warning" >>
    \o (IF a.persistence
        THEN << "print:persistence_enabled",
                IF Truthy(a.persistence_size) THEN "print:persistence_size"
                ELSE "print:all_remaining" >>
        ELSE << >>)
    \o << "input:confirm" >>

InitCLI ==
    /\ persistence_enabled = FALSE
    /\ image_exists \in BOOLEAN
    /\ device_exists \in BOOLEAN
    /\ is_block \in BOOLEAN
    /\ is_block => device_exists
    /\ mounts = 0
    /\ pc = "idle"
    /\ status = "running"
    /\ error = "none"
    /\ failed_at = "none"
    /\ cmds = << >>
    /\ steps = << >>
    /\ warnings = {}
    /\ content = Items
    /\ mounted = 0
    /\ tmpdirs = 0
    /\ setup_result = "none"
    /\ verify_result = "none"
    /\ last = NoCall
    /\ calls = 0
    /\ system = "unread"
    /\ SizeIdle
    /\ PathIdle
    /\ RunIdle
    /\ ToolIdle
    /\ cli_args \in CliArgs
    /\ cli_pc = "main"
    /\ exit_code = -1
    /\ cli_trace = << >>

\* The variables main() leaves alone before the Flasher runs.
cliOff ==
    << image_exists, device_exists, is_block, mounts, status, error,
       failed_at, cmds, steps, warnings, pbVars, calls, system, image_size,
       total_size, boot_size_mb, sizes, table_cmds, size_pc, pathVars,
       runVars, toolVars, cli_args >>

\* main() up to the Flasher construction: the configuration load, the
\* warning, the prompt, and either the abort or the new Flasher.
CliConfirm ==
    /\ cli_pc = "main"
    /\ IF ~cli_args.config_ok
       THEN /\ cli_trace' = << "error:configuration" >>
            /\ exit_code' = 1
            /\ cli_pc' = "exited"
            /\ UNCHANGED << persistence_enabled, persistence_size_mb, pc >>
       ELSE IF ~Confirmed(cli_args.answer)
       THEN /\ cli_trace' = Announcement(cli_args) \o << "print:aborted" >>
            /\ exit_code' = 0
            /\ cli_pc' = "exited"
            /\ UNCHANGED << persistence_enabled, persistence_size_mb, pc >>
       ELSE /\ cli_trace' = Announcement(cli_args) \o << "construct:Flasher" >>
            /\ persistence_enabled' = cli_args.persistence
            /\ persistence_size_mb' =
                  IF Truthy(cli_args.persistence_size)
                  THEN cli_args.persistence_size.value ELSE -1
            /\ pc' = "flash"
            /\ cli_pc' = "flashing"
            /\ UNCHANGED exit_code
    /\ UNCHANGED cliOff

\* flasher.flash() has returned or raised (cli.py:112-116).
CliFlashReturn ==
    /\ cli_pc = "flashing"
    /\ pc = "done"
    /\ IF status = "failed"
       THEN /\ cli_trace' = Append(cli_trace, "error:flash_failed")
            /\ exit_code' = 1
       ELSE /\ exit_code' = 0
            /\ UNCHANGED cli_trace
    /\ cli_pc' = "exited"
    /\ UNCHANGED << cliOff, persistence_enabled, persistence_size_mb, pc >>

NextCLI == CliConfirm \/ CliFlashReturn \/ Next

SpecCLI == InitCLI /\ [][NextCLI]_vars

\* ------------------------------------------------------------------------
\* list_usb_devices (partition.py:239-275) on an arbitrary lsblk listing.

MaxLines == 2

\* One line of `lsblk -n -d -o NAME,SIZE,VENDOR,MODEL,RM,TYPE -b`, by
\* column.  A cell may be empty, and VENDOR and MODEL may hold several words.
Line(name, size, vendor, model, rm, type) ==
    [name |-> name, size |-> size, vendor |-> vendor, model |-> model,
     rm |-> rm, type |-> type]

LsblkLines ==
    { Line("sdb", "4096", << "SanDisk" >>, << "Ultra" >>, "1", "disk"),
      Line("sdc", "8192", << "Kingston" >>, << "DT" >>, "1", "disk"),
      Line("sda", "8192", << "ATA" >>, << "SSD" >>, "0", "disk"),
      Line("sr0", "4096", << "HL" >>, << "DVD" >>, "1", "rom"),
      Line("sdd", "4096", << >>, << "Ultra" >>, "1", "disk"),
      Line("sde", "4096", << "SanDisk" >>, << "Ultra", "Fit" >>, "1", "disk"),
      Line("sdf", "3.7G", << "Generic" >>, << "Flash" >>, "1", "disk"),
      Line("junk", "", << >>, << >>, "", ""),
      Line("", "", << >>, << >>, "", "") }

RECURSIVE SeqsUpTo(_, _)
SeqsUpTo(S, n) ==
    IF n = 0 THEN { << >> }
    ELSE LET shorter == SeqsUpTo(S, n - 1)
         IN  shorter \cup { Append(q, x) : q \in shorter, x \in S }

Cell(text) == IF text = "" THEN << >> ELSE << text >>

\* line.split(): the words of the line as printed; an empty cell leaves no
\* word behind.
Split(l) ==
    Cell(l.name) \o Cell(l.size) \o l.vendor \o l.model \o Cell(l.rm)
    \o Cell(l.type)

\* The words int() accepts, and their values.
IsDecimal(word) == word \in {"4096", "8192"}

int(word) == CASE word = "4096" -> 4096
               [] word = "8192" -> 8192

DeviceInfo(name, size_bytes, vendor, model, removable) ==
    [path |-> << "/dev/", name >>, size_bytes |-> size_bytes,
     vendor |-> vendor, model |-> model, removable |-> removable]

\* The loop over the lines; int() of a word that is no number ends it with
\* ValueError.
RECURSIVE ScanLines(_, _)
ScanLines(lines, devices) ==
    IF lines = << >> THEN [devices |-> devices, raised |-> "none"]
    ELSE LET parts == Split(Head(lines))
         IN  IF Len(parts) < 6 THEN ScanLines(Tail(lines), devices)
             ELSE IF ~IsDecimal(parts[2])
             THEN [devices |-> devices, raised |-> "ValueError"]
             ELSE IF parts[5] = "1" /\ parts[6] = "disk"
             THEN ScanLines(Tail(lines),
                            Append(devices,
                                   DeviceInfo(parts[1], int(parts[2]),
                                              parts[3], parts[4], TRUE)))
             ELSE ScanLines(Tail(lines), devices)

\* list_usb_devices(): lsblk ends as out and prints lines.
list_usb_devices(out, lines) ==
    IF Raises(out, FALSE)
    THEN [devices |-> << >>, raised |-> "none",
          events |-> {"error:list_usb_devices"}]
    ELSE IF out # "ok"
    THEN [devices |-> << >>, raised |-> "none", events |-> {}]
    ELSE LET r == ScanLines(lines, << >>)
         IN  [devices |-> r.devices, raised |-> "none",
              events |-> IF r.raised # "none"
                         THEN {"error:list_usb_devices"} ELSE {}]

toolOff == << flashVars, sizeVars, pathVars, runVars, cliVars >>

InitList ==
    /\ FlashIdle
    /\ SizeIdle
    /\ PathIdle
    /\ RunIdle
    /\ CliIdle
    /\ call \in [op : {"list_usb_devices"}, out : Outcomes,
                 lines : SeqsUpTo(LsblkLines, MaxLines)]
    /\ returned = << >>

ListUsbDevices ==
    /\ call # << >>
    /\ call.op = "list_usb_devices"
    /\ returned = << >>
    /\ returned' = list_usb_devices(call.out, call.lines)
    /\ UNCHANGED << toolOff, call >>

NextList == ListUsbDevices

SpecList == InitList /\ [][NextList]_vars

\* ------------------------------------------------------------------------
\* Builder.build (core.py:66-109).

\* Variant of BuildSteps that applies the overlay after the mastering.
BuildStepsOverlayLast(overlay_exists) ==
    << "7z", "mkisofs" >>
    \o (IF overlay_exists THEN << "copytree" >> ELSE << >>)

\* What the body of the with block does, in order: the extraction, the
\* overlay copy when core/overlay exists, the ISO mastering.
BuildSteps(overlay_exists) ==
    << "7z" >>
    \o (IF overlay_exists THEN << "copytree" >> ELSE << >>)
    \o << "mkisofs" >>

\* The exception a step of the body raises in environment c, or "none".
BuildStepError(step, c) ==
    CASE step = "7z" ->
           IF Raises(c.extract, TRUE) THEN ErrorKind(c.extract) ELSE "none"
      [] step = "copytree" -> IF c.copy_ok THEN "none" ELSE "OSError"
      [] step = "mkisofs" ->
           IF Raises(c.master, TRUE) THEN ErrorKind(c.master) ELSE "none"

RECURSIVE RunBuild(_, _)
RunBuild(todo, c) ==
    IF todo = << >> THEN [trace |-> << >>, raised |-> "none"]
    ELSE LET e == BuildStepError(Head(todo), c)
         IN  IF e # "none" THEN [trace |-> << Head(todo) >>, raised |-> e]
             ELSE LET rest == RunBuild(Tail(todo), c)
                  IN  [trace |-> << Head(todo) >> \o rest.trace,
                       raised |-> rest.raised]

\* build(): the base ISO check, then the body inside the temporary
\* directory, which the with statement removes however the body ends.
build(c) ==
    IF ~c.iso_exists
    THEN [raised |-> "FileNotFoundError", trace |-> << >>,
          work_dir |-> "never", output |-> FALSE]
    ELSE LET r == RunBuild(BuildSteps(c.overlay_exists), c)
         IN  [raised |-> r.raised,
              trace |-> << "mkdtemp", "ensure_dir" >> \o r.trace
                        \o << "cleanup" >>,
              work_dir |-> "removed",
              output |-> (r.raised = "none")]

InitBuild ==
    /\ FlashIdle
    /\ SizeIdle
    /\ PathIdle
    /\ RunIdle
    /\ CliIdle
    /\ call \in [op : {"build"}, iso_exists : BOOLEAN,
                 overlay_exists : BOOLEAN, extract : Outcomes,
                 copy_ok : BOOLEAN, master : Outcomes]
    /\ returned = << >>

Build ==
    /\ call # << >>
    /\ call.op = "build"
    /\ returned = << >>
    /\ returned' = build(call)
    /\ UNCHANGED << toolOff, call >>

NextBuild == Build

SpecBuild == InitBuild /\ [][NextBuild]_vars

\* ------------------------------------------------------------------------
\* PartitionManager.wipe_device (partition.py:119-147) on a device of an
\* arbitrary size.

MaxWipeMiB == 3

\* Device sizes of at least 2 MiB, whole numbers of MiB and not.
WipeSizes ==
    { Bytes(m, r) : m \in (2..MaxWipeMiB) \cup {8192}, r \in {0, 512, MiB - 1} }

\* seek={size // (1024*1024) - 1}
SeekBlocks(size) == FloorMiB(size) - 1

\* The byte range [lo, hi) that dd bs=1M seek=blocks count=1 writes.
Block(blocks) == [lo |-> FromMiB(blocks), hi |-> FromMiB(blocks + 1)]

\* The ranges zeroed by the dd commands of the log that succeeded.
ZeroedBy(log, size) ==
    { Block(0) : i \in { j \in 1..Len(log) :
                           /\ log[j].prog = "dd" /\ log[j].arg = "zero_first"
                           /\ log[j].out = "ok" } }
    \cup
    { Block(SeekBlocks(size)) :
        i \in { j \in 1..Len(log) :
                  /\ log[j].prog = "dd" /\ log[j].arg = "zero_last"
                  /\ log[j].out = "ok" } }

InitWipe ==
    /\ FlashIdle
    /\ SizeIdle
    /\ PathIdle
    /\ RunIdle
    /\ CliIdle
    /\ call \in [op : {"wipe_device"}, size : WipeSizes,
                 outs : { o \in [1..4 -> Outcomes] :
                            /\ Raises(o[2], FALSE) => o[3] = "ok"
                            /\ (Raises(o[2], FALSE) \/ Raises(o[3], TRUE))
                                  => o[4] = "ok" }]
    /\ returned = << >>

Wipe ==
    /\ call # << >>
    /\ call.op = "wipe_device"
    /\ returned = << >>
    /\ LET r == wipe_device(call.outs)
       IN  returned' = [log |-> r.log, raised |-> r.raised,
                        events |-> r.events,
                        zeroed |-> ZeroedBy(r.log, call.size)]
    /\ UNCHANGED << toolOff, call >>

NextWipe == Wipe

SpecWipe == InitWipe /\ [][NextWipe]_vars

\* ------------------------------------------------------------------------
\* PartitionManager.unmount_all (partition.py:100-117) on an arbitrary
\* mount table.  Sources and mount points are character strings.

MaxEntries == 2

\* The device the manager is bound to.
BoundDevice == << "/", "d", "e", "v", "/", "s", "d", "b" >>

Entry(source, point) == [source |-> source, point |-> point]

\* Lines of the mount table: "<source> on <point> type ...".
MountEntries ==
    { Entry(<< "/", "d", "e", "v", "/", "s", "d", "b", "1" >>,
            << "/", "m", "n", "t", "/", "a" >>),
      Entry(<< "/", "d", "e", "v", "/", "s", "d", "b" >>,
            << "/", "m", "n", "t", "/", "w" >>),
      Entry(<< "/", "d", "e", "v", "/", "s", "d", "a", "1" >>,
            << "/" >>),
      Entry(<< "/", "d", "e", "v", "/", "s", "d", "b", "a", "1" >>,
            << "/", "m", "n", "t", "/", "b" >>),
      Entry(<< "/", "d", "e", "v", "/", "s", "d", "c", "1" >>,
            << "/", "m", "n", "t", "/", "d", "e", "v", "/", "s", "d", "b" >>),
      Entry(<< "t", "m", "p", "f", "s" >>,
            << "/", "t", "m", "p" >>) }

LineText(e) == e.source \o << " ", "o", "n", " " >> \o e.point

\* [line for line in stdout.split('\n') if self.device_path in line]
Matched(dev, table) ==
    SelectSeq(table, LAMBDA e : Contains(dev, LineText(e)))

\* unmount_all on the table: what it logs and raises, and parts[0] of each
\* line an umount was issued for.
UnmountTable(dev, queryOut, table, uouts) ==
    LET matched == Matched(dev, table)
        r == unmount_all(queryOut, Len(matched),
                         SubSeq(uouts, 1, Len(matched)))
    IN  [log |-> r.log, raised |-> r.raised, events |-> r.events,
         targets |-> [i \in 1..(Len(r.log) - 1) |-> matched[i].source]]

InitUnmount ==
    /\ FlashIdle
    /\ SizeIdle
    /\ PathIdle
    /\ RunIdle
    /\ CliIdle
    /\ call \in [op : {"unmount_all"}, device : {BoundDevice},
                 out : Outcomes, table : SeqsUpTo(MountEntries, MaxEntries),
                 uouts : [1..MaxEntries -> Outcomes]]
    /\ returned = << >>

UnmountCall ==
    /\ call # << >>
    /\ call.op = "unmount_all"
    /\ returned = << >>
    /\ returned' = UnmountTable(call.device, call.out, call.table, call.uouts)
    /\ UNCHANGED << toolOff, call >>

NextUnmount == UnmountCall

SpecUnmount == InitUnmount /\ [][NextUnmount]_vars

\* ------------------------------------------------------------------------
\* Direct calls of get_device_info (partition.py:69-98) and of
\* get_partition_info (partition.py:216-236).

MaxQueries == 2

\* What lsblk does at one call: how it ends and the words it prints.
Query(out, words) == [out |-> out, words |-> words]

DeviceQueries ==
    { Query("nonzero", << >>), Query("nostart", << >>) }
    \cup { Query("ok", w) :
             w \in { << >>,
                     << "4096", "SanDisk", "Ultra", "1" >>,
                     << "8192", "Kingston", "DT", "0" >>,
                     << "4096", "Ultra", "1" >>,
                     << "3.7G", "SanDisk", "Ultra", "1" >>,
                     << "4096", "SanDisk", "Ultra", "Fit", "1" >> } }

PartitionQueries ==
    { Query("nonzero", << >>), Query("nostart", << >>) }
    \cup { Query("ok", w) :
             w \in { << >>, << "4G" >>, << "4G", "vfat" >>,
                     << "4G", "vfat", "USBBOOT" >>,
                     << "4G", "ext4", "persistence", "extra" >> } }

\* Variant of ParseDeviceInfo that is content with three fields.
ParseDeviceInfoThreeFields(parts) ==
    IF Len(parts) >= 3
    THEN IF ~IsDecimal(parts[1]) THEN [ret |-> << >>, raised |-> "ValueError"]
         ELSE [ret |-> << [path |-> "device", size_bytes |-> int(parts[1]),
                           vendor |-> parts[2], model |-> parts[3],
                           removable |-> (Len(parts) > 3 /\ parts[4] = "1")] >>,
               raised |-> "none"]
    ELSE [ret |-> << >>, raised |-> "none"]

\* The body of get_device_info after a zero exit (partition.py:81-94): the
\* DeviceInfo, or nothing; ret is << >> for None.
ParseDeviceInfo(parts) ==
    IF Len(parts) >= 4
    THEN IF ~IsDecimal(parts[1]) THEN [ret |-> << >>, raised |-> "ValueError"]
         ELSE [ret |-> << [path |-> "device", size_bytes |-> int(parts[1]),
                           vendor |-> parts[2], model |-> parts[3],
                           removable |-> (Len(parts) > 3 /\ parts[4] = "1")] >>,
               raised |-> "none"]
    ELSE [ret |-> << >>, raised |-> "none"]

\* get_device_info(): the query, what is returned and what is logged.
DeviceInfoCall(q) ==
    LET r == get_device_info(q.out)
        p == ParseDeviceInfo(q.words)
    IN  IF q.out # "ok"
        THEN [log |-> r.log, raised |-> r.raised, events |-> r.events,
              ret |-> << >>]
        ELSE [log |-> r.log, raised |-> r.raised,
              events |-> IF p.raised # "none" THEN {"error:device_info"}
                         ELSE r.events,
              ret |-> p.ret]

\* The dict built by get_partition_info after a zero exit
\* (partition.py:225-231).
ParsePartitionInfo(part, parts) ==
    [path |-> part,
     size |-> IF Len(parts) > 0 THEN parts[1] ELSE "Unknown",
     fstype |-> IF Len(parts) > 1 THEN parts[2] ELSE "Unknown",
     label |-> IF Len(parts) > 2 THEN parts[3] ELSE ""]

\* get_partition_info(n)
PartitionInfoCall(part, q) ==
    LET r == get_partition_info(part, q.out)
    IN  [log |-> r.log, raised |-> r.raised, events |-> r.events,
         ret |-> IF q.out = "ok" THEN ParsePartitionInfo(part, q.words)
                 ELSE [path |-> part]]

SeqsFromTo(S, lo, hi) ==
    { q \in SeqsUpTo(S, hi) : Len(q) >= lo }

InitInfo ==
    /\ FlashIdle
    /\ SizeIdle
    /\ PathIdle
    /\ RunIdle
    /\ CliIdle
    /\ call \in [op : {"get_device_info"}, part : {"device"},
                 queries : SeqsFromTo(DeviceQueries, 1, MaxQueries)]
                \cup [op : {"get_partition_info"}, part : {"part1", "part2"},
                      queries : SeqsFromTo(PartitionQueries, 1, MaxQueries)]
    /\ returned = << >>

\* The next call of get_device_info on the same manager.
GetDeviceInfoCall ==
    /\ call # << >>
    /\ call.op = "get_device_info"
    /\ Len(returned) < Len(call.queries)
    /\ returned' = Append(returned,
                          DeviceInfoCall(call.queries[Len(returned) + 1]))
    /\ UNCHANGED << toolOff, call >>

\* The next call of get_partition_info(n) on the same manager.
GetPartitionInfoCall ==
    /\ call # << >>
    /\ call.op = "get_partition_info"
    /\ Len(returned) < Len(call.queries)
    /\ returned' = Append(returned,
                          PartitionInfoCall(call.part,
                                            call.queries[Len(returned) + 1]))
    /\ UNCHANGED << toolOff, call >>

NextInfo == GetDeviceInfoCall \/ GetPartitionInfoCall

SpecInfo == InitInfo /\ [][NextInfo]_vars

\* ------------------------------------------------------------------------
\* GrubConfigurator: grub.cfg is a file of lines, each ended by a newline;
\* a missing file and an empty file are different states.

MaxInjections == 3

\* generate_grub_entry: the menu entries, as the lines of the literal.
generate_grub_entry(enabled) ==
    IF enabled
    THEN << "",
            "menuentry \"USBFREEDOM with Persistence\" {",
            "    set gfxpayload=keep",
            "    linux /live/vmlinuz boot=live persistence persistence-label=persistence quiet splash",
            "    initrd /live/initrd.img",
            "}",
            "",
            "menuentry \"USBFREEDOM (No Persistence)\" {",
            "    set gfxpayload=keep",
            "    linux /live/vmlinuz boot=live nopersistence quiet splash",
            "    initrd /live/initrd.img",
            "}",
            "",
            "menuentry \"USBFREEDOM (Failsafe)\" {",
            "    set gfxpayload=keep",
            "    linux /live/vmlinuz boot=live persistence persistence-label=persistence nomodeset",
            "    initrd /live/initrd.img",
            "}" >>
    ELSE << "",
            "menuentry \"USBFREEDOM\" {",
            "    set gfxpayload=keep",
            "    linux /live/vmlinuz boot=live quiet splash",
            "    initrd /live/initrd.img",
            "}",
            "",
            "menuentry \"USBFREEDOM (Failsafe)\" {",
            "    set gfxpayload=keep",
            "    linux /live/vmlinuz boot=live nomodeset",
            "    initrd /live/initrd.img",
            "}" >>

\* What the append branch writes before the entry.
AppendHeader == << "", "", "# USBFREEDOM Persistence Configuration" >>

\* What the create branch writes before the entry.
CreateHeader ==
    << "# GRUB Configuration for USBFREEDOM", "set timeout=10",
       "set default=0", "" >>

\* Configurations found on a boot partition that USBFREEDOM did not write.
ForeignConfigs ==
    { << "set timeout=5",
         "menuentry \"Debian Live\" {",
         "    linux /live/vmlinuz boot=live quiet",
         "}" >>,
      << "menuentry \"Live (persistence)\" {",
         "    linux /live/vmlinuz boot=live persistence",
         "}" >>,
      << "# PERSISTENCE is set up by the installer" >>,
      << "" >> }

\* The lines in which 'persistence' occurs once they are lowercased; the
\* word holds no newline, so it occurs in the text iff it occurs in a line.
PersistenceLines ==
    { "menuentry \"USBFREEDOM with Persistence\" {",
      "    linux /live/vmlinuz boot=live persistence persistence-label=persistence quiet splash",
      "menuentry \"USBFREEDOM (No Persistence)\" {",
      "    linux /live/vmlinuz boot=live nopersistence quiet splash",
      "    linux /live/vmlinuz boot=live persistence persistence-label=persistence nomodeset",
      "# USBFREEDOM Persistence Configuration",
      "menuentry \"Live (persistence)\" {",
      "    linux /live/vmlinuz boot=live persistence",
      "# PERSISTENCE is set up by the installer" }

\* 'persistence' in existing_config.lower()
MentionsPersistence(lines) ==
    \E i \in 1..Len(lines) : lines[i] \in PersistenceLines

GrubFiles ==
    { [exists |-> FALSE, lines |-> << >>], [exists |-> TRUE, lines |-> << >>] }
    \cup [exists : {TRUE}, lines : ForeignConfigs]

\* inject_grub_config: grub.cfg after the call. A missing file reads as
\* the empty text.
inject_grub_config(file, enabled) ==
    LET existing_config == IF file.exists THEN file.lines ELSE << >>
        new_entry == generate_grub_entry(enabled)
    IN  IF existing_config # << >> /\ ~MentionsPersistence(existing_config)
        THEN [exists |-> TRUE,
              lines |-> existing_config \o AppendHeader \o new_entry]
        ELSE IF existing_config = << >>
             THEN [exists |-> TRUE, lines |-> CreateHeader \o new_entry]
             ELSE file

\* grub.cfg before call number n of the sequence.
GrubBefore(n) == IF n = 1 THEN call.grub_cfg ELSE returned[n - 1]

InitGrub ==
    /\ FlashIdle
    /\ SizeIdle
    /\ PathIdle
    /\ RunIdle
    /\ CliIdle
    /\ call \in [op : {"inject_grub_config"}, grub_cfg : GrubFiles,
                 args : SeqsFromTo(BOOLEAN, 1, MaxInjections)]
    /\ returned = << >>

\* The next call of inject_grub_config on the same boot partition.
InjectGrubConfig ==
    /\ call # << >>
    /\ call.op = "inject_grub_config"
    /\ Len(returned) < Len(call.args)
    /\ returned' = Append(returned,
                          inject_grub_config(GrubBefore(Len(returned) + 1),
                                             call.args[Len(returned) + 1]))
    /\ UNCHANGED << toolOff, call >>

NextGrub == InjectGrubConfig

SpecGrub == InitGrub /\ [][NextGrub]_vars

\* ------------------------------------------------------------------------
\* interactive.select_modules: one prompt loop over one category.

MaxInputs == 3

\* The ids of category.modules, in the order of the category.
CategoryModules == << "recon", "wireless", "forensics" >>

\* What input(...).strip().lower() yields at the prompt; "EOF" stands for
\* the EOFError or KeyboardInterrupt that input() raises.
Choices == { "d", "a", "n", "0", "1", "2", "3", "4", "x", "", "EOF" }

\* The choices int() accepts, and their values.
IsInteger(choice) == choice \in { "0", "1", "2", "3", "4" }

ChoiceInt(choice) == CASE choice = "0" -> 0
                       [] choice = "1" -> 1
                       [] choice = "2" -> 2
                       [] choice = "3" -> 3
                       [] choice = "4" -> 4

Ids(selected) == { selected[i] : i \in 1..Len(selected) }

\* list.remove: drops the first occurrence.
Remove(selected, module_id) ==
    LET i == CHOOSE k \in 1..Len(selected) :
                 /\ selected[k] = module_id
                 /\ \A j \in 1..(k - 1) : selected[j] # module_id
    IN  SubSeq(selected, 1, i - 1) \o SubSeq(selected, i + 1, Len(selected))

\* Variant of toggle_module that appends without looking.
toggle_module_append_only(selected, module_id) ==
    Append(selected, module_id)

toggle_module(selected, module_id) ==
    IF module_id \in Ids(selected)
    THEN Remove(selected, module_id)
    ELSE Append(selected, module_id)

\* One pass of the while loop: the selection after the choice and whether
\* the loop goes on ("prompt"), select_modules returned or the process left.
Choose(selected, choice) ==
    IF choice = "EOF" THEN [selected |-> selected, status |-> "aborted"]
    ELSE IF choice = "d"
    THEN [selected |-> selected,
          status |-> IF selected # << >> THEN "returned" ELSE "prompt"]
    ELSE IF choice = "a"
    THEN [selected |-> CategoryModules, status |-> "prompt"]
    ELSE IF choice = "n"
    THEN [selected |-> << >>, status |-> "prompt"]
    ELSE IF IsInteger(choice)
            /\ 0 <= ChoiceInt(choice) - 1
            /\ ChoiceInt(choice) - 1 < Len(CategoryModules)
    THEN [selected |-> toggle_module(selected,
                                     CategoryModules[ChoiceInt(choice)]),
          status |-> "prompt"]
    ELSE [selected |-> selected, status |-> "prompt"]

\* The selection when prompt number n is shown.
SelectedBefore(n) == IF n = 1 THEN << >> ELSE returned[n - 1].selected

InitSelect ==
    /\ FlashIdle
    /\ SizeIdle
    /\ PathIdle
    /\ RunIdle
    /\ CliIdle
    /\ call \in [op : {"select_modules"},
                 inputs : SeqsFromTo(Choices, 1, MaxInputs)]
    /\ returned = << >>

\* The operator answers the next prompt of select_modules.
SelectModules ==
    /\ call # << >>
    /\ call.op = "select_modules"
    /\ Len(returned) < Len(call.inputs)
    /\ IF returned = << >> THEN TRUE
       ELSE returned[Len(returned)].status = "prompt"
    /\ returned' = Append(returned,
                          Choose(SelectedBefore(Len(returned) + 1),
                                 call.inputs[Len(returned) + 1]))
    /\ UNCHANGED << toolOff, call >>

NextSelect == SelectModules

SpecSelect == InitSelect /\ [][NextSelect]_vars

\* ------------------------------------------------------------------------
\* Properties

Last(seq) == seq[Len(seq)]

Destructive(c) ==
    c.prog \in {"umount", "diskutil", "wipefs", "dd", "parted",
                "mkfs.vfat", "mkfs.ext4"}

\* C1: when the image file or the device path does not exist, flash fails
\* with the validation error (FileNotFoundError) in either mode, and no
\* external command has been invoked.
C1_MissingPathFailsBeforeAnyCommand ==
    (~image_exists \/ ~device_exists) =>
        /\ cmds = << >>
        /\ pc \in {"flash", "done"}
        /\ pc = "done" => /\ status = "failed"
                          /\ error = "FileNotFoundError"
                          /\ failed_at = "flash"

C1_Witness ==
    /\ image_exists /\ ~device_exists
    /\ pc = "done" /\ status = "failed" /\ failed_at = "flash"

\* C2: in either mode, a target path that exists but is not a block device
\* makes the run fail with a validation error before any destructive
\* command (umount, wipefs, dd, parted, mkfs) is issued.
C2_NonBlockDeviceNeverTouched ==
    (device_exists /\ ~is_block) =>
        /\ \A i \in 1..Len(cmds) : ~Destructive(cmds[i])
        /\ pc = "done" => /\ status = "failed"
                          /\ error \in {"ValueError", "FileNotFoundError"}

\* C3: a persistence-flash run executes block-device validation,
\* unmount_all, wipe_device, device-info query, create_partition_table,
\* format_partitions, image copy, sync, persistence setup, verification,
\* final sync and the report in exactly this order; commands appear in the
\* order of their steps, no mkfs precedes the creation of partition 2 and
\* no image copy precedes the two successful mkfs.
ExpectedOrder ==
    << "flash", "pm_init", "unmount_all", "wipe_device", "get_device_info",
       "create_partition_table", "format_partitions", "copy_image", "sync",
       "setup_persistence", "verify_persistence", "final_sync", "report" >>

Rank(step) == CHOOSE i \in 1..Len(ExpectedOrder) : ExpectedOrder[i] = step

OkBefore(j, prog, arg) ==
    \E i \in 1..(j - 1) :
        cmds[i].prog = prog /\ cmds[i].arg = arg /\ cmds[i].out = "ok"

C3_PersistenceStepsInOrder ==
    persistence_enabled =>
        /\ Len(steps) <= Len(ExpectedOrder)
        /\ steps = SubSeq(ExpectedOrder, 1, Len(steps))
        /\ \A i \in 1..(Len(cmds) - 1) :
              Rank(cmds[i].step) <= Rank(cmds[i + 1].step)
        /\ \A j \in 1..Len(cmds) :
              /\ cmds[j].prog \in {"mkfs.vfat", "mkfs.ext4"} =>
                    /\ OkBefore(j, "parted", "mklabel")
                    /\ OkBefore(j, "parted", "mkpart1")
                    /\ OkBefore(j, "parted", "mkpart2")
              /\ (cmds[j].prog = "dd" /\ cmds[j].arg = "image") =>
                    /\ OkBefore(j, "mkfs.vfat", "USBBOOT")
                    /\ OkBefore(j, "mkfs.ext4", "persistence")

C3_Witness ==
    /\ persistence_enabled
    /\ status = "success"
    /\ steps = ExpectedOrder

\* C4: in a persistence-flash run a failing command of partition-table
\* creation (the rescan excepted), of formatting, or the image copy is the
\* last command of the run: the error reaches the caller, no later step
\* runs and nothing is rolled back.
MandatoryCmd(c) ==
    /\ c.step \in {"create_partition_table", "format_partitions", "copy_image"}
    /\ c.prog # "partprobe"

C4_MandatoryFailureAborts ==
    \A i \in 1..Len(cmds) :
        (MandatoryCmd(cmds[i]) /\ cmds[i].out # "ok") =>
            /\ i = Len(cmds)
            /\ pc = "done"
            /\ status = "failed"
            /\ error \in {"CalledProcessError", "FileNotFoundError"}
            /\ failed_at = cmds[i].step
            /\ Last(steps) = cmds[i].step

C4_Witness ==
    /\ status = "failed"
    /\ failed_at = "format_partitions"
    /\ Last(cmds).prog = "mkfs.ext4"
    /\ Last(cmds).out = "nonzero"

\* C5: when setup_persistence_structure returns false after partitioning,
\* formatting and the image copy succeeded, the run aborts with the
\* persistence error (RuntimeError); verification, the final sync and the
\* report do not run and the run is not successful.
C5_SetupFalseAborts ==
    setup_result = "false" =>
        /\ pc = "done"
        /\ status = "failed"
        /\ error = "RuntimeError"
        /\ failed_at = "setup_persistence"
        /\ Last(steps) = "setup_persistence"
        /\ verify_result = "none"
        /\ \A i \in 1..Len(cmds) :
              cmds[i].step \notin {"verify_persistence", "final_sync", "report"}

C5_Witness ==
    /\ setup_result = "false"
    /\ status = "failed"
    /\ \E i \in 1..Len(cmds) :
          cmds[i].prog = "dd" /\ cmds[i].arg = "image" /\ cmds[i].out = "ok"

\* C6: when setup succeeded and verify_persistence returns false, only a
\* warning is emitted: the run goes on to the final sync, the only thing
\* that can still fail it is that sync command itself, and otherwise it
\* runs the report and ends successfully.
C6_VerifyFalseIsOnlyAWarning ==
    verify_result = "false" =>
        /\ setup_result = "true"
        /\ "warning:verification_failed" \in warnings
        /\ pc \in {"final_sync", "report", "done"}
        /\ status = "failed" =>
              /\ failed_at = "final_sync"
              /\ Last(cmds).prog = "sync" /\ Last(cmds).out # "ok"
        /\ (pc = "done" /\ status # "failed") =>
              /\ status = "success"
              /\ error = "none"
              /\ steps = ExpectedOrder

C6_Witness ==
    /\ verify_result = "false"
    /\ pc = "done"
    /\ status = "success"

\* C7: in a persistence-flash run no failure of a best-effort command (the
\* mount query and umounts of unmount_all, the commands of wipe_device, the
\* lsblk of get_device_info, the partprobe rescan), non-zero exit or
\* failure to start, is the reason the run fails.
BestEffortCmd(c) ==
    \/ c.step \in {"unmount_all", "wipe_device", "get_device_info"}
    \/ (c.step = "create_partition_table" /\ c.prog = "partprobe")

C7_BestEffortFailureNeverRaises ==
    \A i \in 1..Len(cmds) :
        (BestEffortCmd(cmds[i]) /\ cmds[i].out # "ok") =>
            ~(status = "failed" /\ failed_at = cmds[i].step /\ i = Len(cmds))

\* C8: after setup_persistence_structure or verify_persistence has returned
\* or raised, its umount was attempted, its temporary mount point is not
\* mounted and its temporary directory is gone, whatever the umount did.
C8_TempMountAlwaysReleased ==
    last.op # "none" =>
        /\ Last(last.log).prog = "umount" /\ Last(last.log).target = "tmp"
        /\ ~last.left_mount
        /\ ~last.left_tmp
        /\ mounted = 0
        /\ tmpdirs = 0

\* C9: setup_persistence_structure never raises; it returns true exactly
\* when the mount, all six mkdir, the persistence.conf write and the sync
\* succeeded, and false otherwise.
C9_SetupReturnsBoolean ==
    last.op = "setup" =>
        /\ last.ret \in {"true", "false"}
        /\ last.ret = "true" <=>
              (last.env[1] = "ok" /\ last.env[2] = 0 /\ last.env[3] = "ok")

\* C10: verify_persistence never raises; it returns true exactly when the
\* mount succeeded and upper, work and persistence.conf are all on the
\* partition, and false otherwise.
C10_VerifyReturnsBoolean ==
    last.op = "verify" =>
        /\ last.ret \in {"true", "false"}
        /\ last.ret = "true" <=>
              (last.env[1] = "ok"
               /\ {"upper", "work", "persistence.conf"} \subseteq last.pre)

\* C11: calculate_sizes returns boot_bytes = boot_size_mb * 2^20 always;
\* with persistence_size_mb = -1 on a device of at least boot + 100 MiB the
\* persistence size is what remains after the boot partition and a 100 MiB
\* buffer; with an explicit size >= 0 it is that size whatever the device.
C11_CalculateSizes ==
    size_pc \in {"returned", "tabled"} =>
        /\ sizes[1] = FromMiB(boot_size_mb)
        /\ sizes[1].rem = 0 /\ sizes[1].mib = boot_size_mb
        /\ (persistence_size_mb = -1
            /\ AtLeast(total_size, FromMiB(boot_size_mb + 100))) =>
              /\ ~Negative(sizes[2])
              /\ Plus(Plus(sizes[2], sizes[1]), FromMiB(100)) = total_size
        /\ persistence_size_mb >= 0 =>
              sizes[2] = Bytes(persistence_size_mb, 0)

C11_Witness ==
    /\ size_pc = "returned"
    /\ boot_size_mb = 2000
    /\ persistence_size_mb = -1
    /\ total_size = Bytes(8192, 512)
    /\ sizes[2] = Bytes(6092, 512)

\* C12: with persistence_size_mb = -1 no partition table is written with a
\* negative persistence size: a device smaller than boot + 100 MiB is
\* rejected or the size is clamped to 0.
C12_NoNegativePersistence ==
    (size_pc = "tabled" /\ persistence_size_mb = -1) => ~Negative(sizes[2])

\* C13 as stated: boot_size_mb = ceil(image_size_mb * 1.2) + 100 for every
\* image size.
C13_BootSizeIsCeiling ==
    size_pc \in {"scheme", "tabled"} =>
        boot_size_mb = BootSizeMbCeil(image_size)

\* C13 as amended: boot_size_mb = floor(image_size_mb * 1.2) + 100, the
\* largest k with 5 * 2^20 * (k - 100) <= 6 * image_size; a 500 MB image on
\* a device of 8 * 2^30 bytes with default persistence gives 700,
\* 700 * 2^20 and 8 * 2^30 - 700 * 2^20 - 100 * 2^20.
SixTimes(b) == Plus(Plus(Plus(b, b), Plus(b, b)), Plus(b, b))

C13_BootSizeIsFloor ==
    size_pc \in {"scheme", "tabled"} =>
        LET k == boot_size_mb - 100
        IN  /\ k >= 0
            /\ AtLeast(SixTimes(image_size), FromMiB(5 * k))
            /\ ~AtLeast(SixTimes(image_size), FromMiB(5 * (k + 1)))
            /\ (size_pc = "tabled" /\ image_size = FromMiB(500)
                /\ total_size = FromMiB(8192) /\ persistence_size_mb = -1) =>
                  /\ boot_size_mb = 700
                  /\ sizes = << FromMiB(700), FromMiB(8192 - 700 - 100) >>

C13_Witness ==
    /\ size_pc = "tabled"
    /\ image_size = Bytes(1, 0)
    /\ boot_size_mb = 101

\* C14: create_partition_table issues, in this order, the size query,
\* mklabel gpt, mkpart fat32 from 1 MiB to 1 MiB + boot_bytes, set 1 boot
\* on, mkpart ext4 from the end of partition 1 to 100%, sync and the
\* rescan; partition 2 begins exactly where partition 1 ends.
C14_TableLayout ==
    size_pc = "tabled" =>
        /\ [i \in 1..Len(table_cmds) |-> << table_cmds[i].prog, table_cmds[i].arg >>]
             = << << "blockdev", "--getsize64" >>, << "parted", "mklabel" >>,
                  << "parted", "mkpart1" >>, << "parted", "set_boot" >>,
                  << "parted", "mkpart2" >>, << "sync", "" >>,
                  << "partprobe", "" >> >>
        /\ table_cmds[2].fs = "gpt"
        /\ table_cmds[3].fs = "fat32"
        /\ Offset(table_cmds[3].start, total_size) = FromMiB(1)
        /\ Offset(table_cmds[3].end, total_size) = Plus(FromMiB(1), sizes[1])
        /\ table_cmds[5].fs = "ext4"
        /\ Offset(table_cmds[5].start, total_size)
             = Offset(table_cmds[3].end, total_size)
        /\ table_cmds[5].end = At(100, "%")
        /\ Offset(table_cmds[5].end, total_size) = total_size

C14_Witness ==
    /\ size_pc = "tabled"
    /\ boot_size_mb = 700
    /\ table_cmds[5].start = At(701, "MiB")

\* C15: with an explicit persistence size of N MB, N > 0, partition 2 as
\* written to the partition table has the size N * 2^20 that the scheme
\* computed.
C15_ExplicitPersistenceSize ==
    (size_pc = "tabled" /\ persistence_size_mb > 0) =>
        /\ sizes[2] = FromMiB(persistence_size_mb)
        /\ Minus(Offset(table_cmds[5].end, total_size),
                 Offset(table_cmds[5].start, total_size)) = sizes[2]

\* C16: every partition node addressed is device_path + 'p' + n when the
\* device path contains 'nvme' or 'mmcblk' and device_path + n otherwise
\* (/dev/sdb,1 -> /dev/sdb1; /dev/nvme0n1,2 -> /dev/nvme0n1p2;
\* /dev/mmcblk0,1 -> /dev/mmcblk0p1); format_partitions, the image copy,
\* persistence setup and get_partition_info address the same node for the
\* same n.
WithMarker ==
    { << "/", "d", "e", "v", "/", "n", "v", "m", "e", "0", "n", "1" >>,
      << "/", "d", "e", "v", "/", "n", "v", "m", "e", "1", "n", "2" >>,
      << "/", "d", "e", "v", "/", "m", "m", "c", "b", "l", "k", "0" >>,
      << "/", "d", "e", "v", "/", "m", "m", "c", "b", "l", "k", "1" >>,
      << "/", "d", "e", "v", "/", "d", "i", "s", "k", "/", "b", "y", "-", "i", "d", "/", "n", "v", "m", "e", "-", "a" >> }

Decimal(n) ==
    LET ds == << "0", "1", "2", "3", "4", "5", "6", "7", "8", "9" >>
    IN  IF n < 10 THEN << ds[n + 1] >>
        ELSE IF n < 100 THEN << ds[(n \div 10) + 1], ds[(n % 10) + 1] >>
        ELSE << ds[(n \div 100) + 1], ds[((n \div 10) % 10) + 1], ds[(n % 10) + 1] >>

C16_PartitionPathRule ==
    /\ \A u \in used :
          /\ device_path \in WithMarker =>
                u.path = device_path \o << "p" >> \o Decimal(u.n)
          /\ device_path \notin WithMarker =>
                u.path = device_path \o Decimal(u.n)
          /\ (device_path = << "/", "d", "e", "v", "/", "s", "d", "b" >> /\ u.n = 1) =>
                u.path = << "/", "d", "e", "v", "/", "s", "d", "b", "1" >>
          /\ (device_path = << "/", "d", "e", "v", "/", "n", "v", "m", "e", "0", "n", "1" >> /\ u.n = 2) =>
                u.path = << "/", "d", "e", "v", "/", "n", "v", "m", "e", "0", "n", "1", "p", "2" >>
          /\ (device_path = << "/", "d", "e", "v", "/", "m", "m", "c", "b", "l", "k", "0" >> /\ u.n = 1) =>
                u.path = << "/", "d", "e", "v", "/", "m", "m", "c", "b", "l", "k", "0", "p", "1" >>
    /\ \A u, v \in used : u.n = v.n => u.path = v.path

C16_Witness ==
    /\ device_path = << "/", "d", "e", "v", "/", "m", "m", "c", "b", "l", "k", "0" >>
    /\ { u.by : u \in used } = {"format_partitions", "copy_image",
                                "setup_persistence", "get_partition_info"}
    /\ \E u \in used : u.n = 12 /\ u.path = << "/", "d", "e", "v", "/", "m", "m", "c", "b", "l", "k", "0", "p", "1", "2" >>


\* C17: format_partitions runs mkfs.vfat (FAT32) with the label USBBOOT
\* on partition 1, then mkfs.ext4 with the label persistence on partition
\* 2, then sync; a failing format command is the last command of the run
\* and its error reaches the caller, and after a failed FAT32 format
\* neither the ext4 format nor the sync is attempted.
FormatLog == SelectSeq(cmds, LAMBDA c : c.step = "format_partitions")

FormatFailure(k) ==
    /\ Len(FormatLog) = k
    /\ Last(cmds) = FormatLog[k]
    /\ pc = "done"
    /\ status = "failed"
    /\ failed_at = "format_partitions"
    /\ error = IF FormatLog[k].out = "nonzero" THEN "CalledProcessError"
               ELSE "FileNotFoundError"

C17_FormatPartitions ==
    (\E i \in 1..Len(steps) : steps[i] = "format_partitions") =>
        /\ Len(FormatLog) \in 1..3
        /\ FormatLog[1].prog = "mkfs.vfat"
        /\ FormatLog[1].arg = "USBBOOT"
        /\ FormatLog[1].target = "part1"
        /\ IF FormatLog[1].out # "ok"
           THEN /\ FormatFailure(1)
                /\ \A i \in 1..Len(cmds) : cmds[i].prog # "mkfs.ext4"
           ELSE /\ Len(FormatLog) >= 2
                /\ FormatLog[2].prog = "mkfs.ext4"
                /\ FormatLog[2].arg = "persistence"
                /\ FormatLog[2].target = "part2"
                /\ IF FormatLog[2].out # "ok"
                   THEN FormatFailure(2)
                   ELSE /\ Len(FormatLog) = 3
                        /\ FormatLog[3].prog = "sync"

C17_Witness ==
    /\ status = "failed"
    /\ failed_at = "format_partitions"
    /\ Len(FormatLog) = 1
    /\ FormatLog[1].prog = "mkfs.vfat"
    /\ FormatLog[1].out = "nonzero"

\* C18: a run without the persistence flag issues no partitioning,
\* formatting, wipe or persistence command and no step of the persistence
\* sequence; it copies the image at most once, to the whole device, and
\* exactly once unless the unmount before the copy could not be started; a
\* run with the persistence flag copies the image only to partition 1, in
\* the copy step, and never runs the whole-device copy.
ImageCopies ==
    SelectSeq(cmds, LAMBDA c : /\ c.prog = "dd"
                               /\ c.arg \notin {"zero_first", "zero_last"})

C18_ModesAreDisjoint ==
    /\ ~persistence_enabled =>
          /\ \A i \in 1..Len(steps) : steps[i] \in {"flash", "flash_simple"}
          /\ \A i \in 1..Len(cmds) :
                /\ cmds[i].prog \in {"umount", "diskutil", "dd", "sync"}
                /\ cmds[i].step = "flash_simple"
                /\ cmds[i].target \in {"device", "none"}
          /\ setup_result = "none" /\ verify_result = "none"
          /\ mounted = 0 /\ tmpdirs = 0 /\ content = Items
          /\ Len(ImageCopies) <= 1
          /\ \A i \in 1..Len(ImageCopies) :
                /\ ImageCopies[i].target = "device"
                /\ ImageCopies[i].arg = DdArgs(system)
          /\ (pc = "done" /\ Len(steps) = 2
              /\ ~(status = "failed" /\ cmds # << >>
                   /\ Last(cmds).prog \in {"umount", "diskutil"})) =>
                Len(ImageCopies) = 1
          /\ status = "success" =>
                (Len(ImageCopies) = 1 /\ ImageCopies[1].out = "ok")
    /\ persistence_enabled =>
          /\ \A i \in 1..Len(steps) : steps[i] # "flash_simple"
          /\ Len(ImageCopies) <= 1
          /\ \A i \in 1..Len(ImageCopies) :
                /\ ImageCopies[i].target = "part1"
                /\ ImageCopies[i].arg = "image"
                /\ ImageCopies[i].step = "copy_image"
          /\ status = "success" =>
                (Len(ImageCopies) = 1 /\ ImageCopies[1].out = "ok")

C18_Witness ==
    /\ ~persistence_enabled
    /\ status = "success"
    /\ system = "Linux"
    /\ Len(ImageCopies) = 1
    /\ ImageCopies[1].target = "device"

\* C19: run_command with check true on a program that exits non-zero
\* raises the command-failed error (CalledProcessError) carrying the
\* captured stderr, which it also logs, and returns no result; with check
\* false on a program that ran it raises nothing and returns the exit code
\* and the captured output, whatever the exit code.
C19_RunCommand ==
    rc_result # << >> =>
        LET a == rc_args.proc
        IN  /\ (rc_args.check /\ a.started /\ a.returncode # 0) =>
                  /\ rc_result.raised = "CalledProcessError"
                  /\ rc_result.result = "none"
                  /\ rc_result.carried.stderr = a.stderr
                  /\ rc_result.carried.returncode = a.returncode
                  /\ Last(rc_result.log).level = "error"
                  /\ Last(rc_result.log).text = a.stderr
            /\ (~rc_args.check /\ a.started) =>
                  /\ rc_result.raised = "none"
                  /\ rc_result.result.returncode = a.returncode
                  /\ rc_result.result.stdout = a.stdout
                  /\ rc_result.result.stderr = a.stderr
                  /\ Len(rc_result.log) = 1

C19_Witness ==
    /\ rc_result # << >>
    /\ ~rc_args.check
    /\ rc_args.proc.started
    /\ rc_args.proc.returncode = MaxExitCode
    /\ rc_result.result.returncode = MaxExitCode

\* C20: the flash command prints the data-loss warning and then prompts
\* before it constructs a Flasher, and no Flasher step or external command
\* happens before that; for every answer other than y or Y it exits with
\* status 0 with no Flasher constructed, no step run and no command
\* issued; a flash that fails after confirmation exits with status 1.
Position(t, e) == IF \E i \in 1..Len(t) : t[i] = e
                  THEN CHOOSE i \in 1..Len(t) : t[i] = e
                  ELSE 0

C20_ConfirmBeforeFlash ==
    /\ (Position(cli_trace, "construct:Flasher") > 0 \/ pc # "idle"
        \/ steps # << >> \/ cmds # << >>) =>
          /\ Position(cli_trace, "print:warning") = 1
          /\ Position(cli_trace, "input:confirm")
               > Position(cli_trace, "print:warning")
          /\ Position(cli_trace, "construct:Flasher")
               > Position(cli_trace, "input:confirm")
    /\ (cli_pc # "main" /\ cli_args.config_ok
        /\ cli_args.answer \notin {<< "y" >>, << "Y" >>}) =>
          /\ cli_pc = "exited"
          /\ exit_code = 0
          /\ cli_trace[1] = "print:warning"
          /\ Position(cli_trace, "construct:Flasher") = 0
          /\ pc = "idle"
          /\ steps = << >>
          /\ cmds = << >>
          /\ content = Items
    /\ (cli_pc = "exited" /\ status = "failed") => exit_code = 1
    /\ cli_pc = "flashing" => exit_code = -1

C20_Witness ==
    /\ cli_pc = "exited"
    /\ cli_args.answer = << "Y" >>
    /\ exit_code = 1
    /\ status = "failed"
    /\ failed_at = "copy_image"

\* C21: list_usb_devices returns, in listing order, one DeviceInfo with
\* path /dev/<name> for exactly the listed lines whose RM column is 1 and
\* whose TYPE column is disk; it returns the empty sequence when lsblk
\* exits non-zero, cannot be run or lists nothing, and never raises.
RemovableDisks ==
    SelectSeq(call.lines, LAMBDA l : l.rm = "1" /\ l.type = "disk")

C21_ListsRemovableDisks ==
    (returned # << >> /\ call.op = "list_usb_devices") =>
        /\ returned.raised = "none"
        /\ (call.out # "ok" \/ call.lines = << >>) => returned.devices = << >>
        /\ call.out = "ok" =>
              [i \in 1..Len(returned.devices) |-> returned.devices[i].path]
                = [i \in 1..Len(RemovableDisks) |->
                     << "/dev/", RemovableDisks[i].name >>]

\* C26: whatever other lines the listing holds, before or after it, every
\* well-formed removable-disk line is returned as a DeviceInfo; a line
\* with six fields whose size is no integer is only skipped.
WellFormed(l) ==
    /\ l.name # "" /\ IsDecimal(l.size)
    /\ Len(l.vendor) = 1 /\ Len(l.model) = 1
    /\ l.rm = "1" /\ l.type = "disk"

C26_MalformedLinesAreSkipped ==
    (returned # << >> /\ call.op = "list_usb_devices" /\ call.out = "ok") =>
        \A i \in 1..Len(call.lines) :
            WellFormed(call.lines[i]) =>
                \E j \in 1..Len(returned.devices) :
                    returned.devices[j]
                      = DeviceInfo(call.lines[i].name, int(call.lines[i].size),
                                   call.lines[i].vendor[1],
                                   call.lines[i].model[1], TRUE)

\* C22: a simple flash first tries to unmount the device, and no failure
\* of that unmount aborts the run; it then copies the image to the device
\* path with bs=4M conv=fsync on Linux and bs=1m conv=sync on Darwin; a
\* sync follows the copy on Linux only; a failing copy is the last command
\* of the run, which then fails without sync and without success.
SimpleCopies == SelectSeq(cmds, LAMBDA c : c.prog = "dd")

SimpleSyncs == SelectSeq(cmds, LAMBDA c : c.prog = "sync")

C22_SimpleFlash ==
    (~persistence_enabled /\ pc = "done" /\ Len(steps) = 2) =>
        /\ system = "Linux" =>
              /\ cmds[1].prog = "umount" /\ cmds[1].target = "device"
        /\ system = "Darwin" =>
              /\ cmds[1].prog = "diskutil" /\ cmds[1].target = "device"
        /\ Len(SimpleCopies) = 1
        /\ SimpleCopies[1].target = "device"
        /\ SimpleCopies[1].arg = (CASE system = "Linux"  -> "bs=4M conv=fsync"
                                    [] system = "Darwin" -> "bs=1m conv=sync"
                                    [] OTHER -> SimpleCopies[1].arg)
        /\ IF SimpleCopies[1].out = "ok"
           THEN /\ Len(SimpleSyncs) = (IF system = "Linux" THEN 1 ELSE 0)
                /\ system = "Linux" => Last(cmds).prog = "sync"
                /\ system # "Linux" => Last(cmds).prog = "dd"
           ELSE /\ Last(cmds).prog = "dd"
                /\ SimpleSyncs = << >>
                /\ status = "failed"
                /\ error = (IF Last(cmds).out = "nonzero"
                            THEN "CalledProcessError" ELSE "FileNotFoundError")
        /\ status = "success" => Last(cmds).out = "ok"

\* C23: with the base ISO missing, build fails before any external
\* command, any temporary directory and any output; otherwise a build
\* that does not fail runs exactly the extraction and then the ISO
\* mastering, with the overlay copy between them exactly when the overlay
\* directory exists; a failed extraction leaves no overlay copy and no
\* mastering; the work directory is removed however the body ends.
Commands(t) == SelectSeq(t, LAMBDA e : e \in {"7z", "mkisofs"})

C23_Build ==
    (returned # << >> /\ call.op = "build") =>
        /\ ~call.iso_exists =>
              /\ returned.raised = "FileNotFoundError"
              /\ returned.trace = << >>
              /\ ~returned.output
              /\ returned.work_dir = "never"
        /\ call.iso_exists =>
              /\ returned.work_dir = "removed"
              /\ Last(returned.trace) = "cleanup"
              /\ Position(returned.trace, "7z") = 3
              /\ Len(Commands(returned.trace)) \in 1..2
              /\ call.extract # "ok" =>
                    /\ returned.raised # "none"
                    /\ Commands(returned.trace) = << "7z" >>
                    /\ Position(returned.trace, "copytree") = 0
              /\ returned.raised = "none" =>
                    /\ Commands(returned.trace) = << "7z", "mkisofs" >>
                    /\ returned.output
                    /\ returned.trace =
                         (IF call.overlay_exists
                          THEN << "mkdtemp", "ensure_dir", "7z", "copytree",
                                  "mkisofs", "cleanup" >>
                          ELSE << "mkdtemp", "ensure_dir", "7z", "mkisofs",
                                  "cleanup" >>)
              /\ Position(returned.trace, "copytree") > 0 =>
                    /\ call.overlay_exists
                    /\ Position(returned.trace, "copytree")
                         > Position(returned.trace, "7z")
              /\ Position(returned.trace, "mkisofs") > 0 =>
                    /\ call.extract = "ok"
                    /\ call.overlay_exists =>
                          Position(returned.trace, "mkisofs")
                            > Position(returned.trace, "copytree")
                            /\ Position(returned.trace, "copytree") > 0

C23_Witness ==
    /\ returned # << >>
    /\ call.op = "build"
    /\ call.iso_exists /\ call.overlay_exists
    /\ call.extract = "ok" /\ call.copy_ok /\ call.master = "nonzero"
    /\ returned.raised = "CalledProcessError"
    /\ returned.work_dir = "removed"

\* C24: when all commands of wipe_device succeed on a device of S >= 2 MiB
\* bytes, the bytes [0, 1 MiB) and [S - 1 MiB, S) have been zeroed, the
\* last byte of the device included, whether or not S is a multiple of
\* 1 MiB.
Covered(lo, hi) ==
    \E r \in returned.zeroed : AtLeast(lo, r.lo) /\ AtLeast(r.hi, hi)

C24_WipeCoversBothEnds ==
    (returned # << >> /\ call.op = "wipe_device"
     /\ \A i \in 1..4 : call.outs[i] = "ok") =>
        /\ Covered(FromMiB(0), FromMiB(1))
        /\ Covered(Minus(call.size, FromMiB(1)), call.size)
        /\ Covered(Minus(call.size, Bytes(0, 1)), call.size)

\* C25: unmount_all never raises; when the mount table could be read it
\* issues an umount for every entry whose source is the device or one of
\* its partitions, whatever the other umounts did, and for no entry of
\* another device, be it one whose path begins with this device's path or
\* one mounted at a point whose name contains the path.
OwnSources ==
    { << "/", "d", "e", "v", "/", "s", "d", "b" >>,
      << "/", "d", "e", "v", "/", "s", "d", "b", "1" >> }

C25_UnmountsOwnEntriesOnly ==
    (returned # << >> /\ call.op = "unmount_all") =>
        /\ returned.raised = "none"
        /\ \A i \in 1..Len(returned.targets) :
              returned.targets[i] \in OwnSources
        /\ call.out # "nostart" =>
              \A i \in 1..Len(call.table) :
                  call.table[i].source \in OwnSources =>
                      \E j \in 1..Len(returned.targets) :
                          returned.targets[j] = call.table[i].source

\* C27: every external program started during a flash run, in either
\* mode, the block-device probe and the image copy included, was announced
\* beforehand by a log event naming the program and its arguments.
C27_EveryInvocationLogged ==
    \A i \in 1..Len(cmds) : Logged(cmds[i])

\* C28: get_device_info and get_partition_info never raise.
\* get_device_info returns None when lsblk exits non-zero, cannot be run,
\* prints fewer than four fields or a size that is no integer.
\* get_partition_info returns only the path when the query fails and path,
\* size, fstype and label, with Unknown, Unknown and '' for what is
\* missing, when it succeeds.  Every call runs its own lsblk and answers
\* from that output alone.
C28_InfoQueriesAreBestEffort ==
    (call # << >> /\ call.op \in {"get_device_info", "get_partition_info"}) =>
        \A i \in 1..Len(returned) :
            LET q == call.queries[i]
                r == returned[i]
            IN  /\ r.raised = "none"
                /\ Len(r.log) = 1
                /\ r.log[1].prog = "lsblk" /\ r.log[1].out = q.out
                /\ r.log[1].target = call.part
                /\ call.op = "get_device_info" =>
                      /\ (\/ q.out # "ok"
                          \/ Len(q.words) < 4
                          \/ q.words[1] \notin {"4096", "8192"})
                            => r.ret = << >>
                      /\ q = Query("ok", << "8192", "Kingston", "DT", "0" >>)
                            => (r.ret # << >> /\ ~r.ret[1].removable)
                /\ call.op = "get_partition_info" =>
                      /\ r.ret.path = call.part
                      /\ q.out # "ok" => DOMAIN r.ret = {"path"}
                      /\ q.out = "ok" =>
                            /\ DOMAIN r.ret = {"path", "size", "fstype", "label"}
                            /\ r.ret.size = (IF q.words = << >> THEN "Unknown"
                                             ELSE q.words[1])
                            /\ r.ret.fstype = (IF Len(q.words) < 2 THEN "Unknown"
                                               ELSE q.words[2])
                            /\ r.ret.label = (IF Len(q.words) < 3 THEN ""
                                              ELSE q.words[3])

C28_Witness ==
    /\ call # << >>
    /\ call.op = "get_device_info"
    /\ Len(returned) = 2
    /\ call.queries[1] = Query("ok", << "4096", "SanDisk", "Ultra", "1" >>)
    /\ call.queries[2] = Query("ok", << "4096", "Ultra", "1" >>)
    /\ returned[1].ret # << >>
    /\ returned[2].ret = << >>

\* C29: when the mount of setup_persistence_structure fails, nothing is
\* created on the partition or under the temporary directory, no sync is
\* issued and the result is false.
C29_FailedMountCreatesNothing ==
    (last.op = "setup" /\ last.env[1] # "ok") =>
        /\ last.ret = "false"
        /\ content = last.pre
        /\ Len(last.log) = 2
        /\ last.log[1].prog = "mount" /\ last.log[1].out = last.env[1]
        /\ last.log[2].prog = "umount"
        /\ \A i \in 1..Len(last.log) : last.log[i].prog # "sync"
        /\ ~last.left_mount
        /\ ~last.left_tmp

C29_Witness ==
    /\ last.op = "setup"
    /\ last.env[1] = "nonzero"
    /\ last.ret = "false"
    /\ last.pre = {}
    /\ content = {}

\* C30: for every image size the boot partition of a persistence flash is
\* at least as large as the image: boot_size_mb * 2^20 >= image_size, and
\* so is the boot size of the scheme and the span of partition 1 in the
\* partition table.
C30_BootPartitionHoldsImage ==
    size_pc \in {"scheme", "tabled"} =>
        /\ AtLeast(FromMiB(boot_size_mb), image_size)
        /\ size_pc = "tabled" =>
              /\ AtLeast(sizes[1], image_size)
              /\ AtLeast(Minus(Offset(table_cmds[3].end, total_size),
                               Offset(table_cmds[3].start, total_size)),
                         image_size)

C30_Witness ==
    /\ size_pc = "tabled"
    /\ image_size = Bytes(1, MiB - 1)
    /\ boot_size_mb = 102
    /\ sizes[1] = FromMiB(102)

\* C31: on a partition whose mounts and umounts succeed, after a setup
\* that returned true a verification returns true, upper, work and
\* persistence.conf being among the items setup created and still there;
\* and a setup whose every operation succeeds returns true and leaves all
\* items in place, so that on a partition that already holds them nothing
\* changes.
C31_SetupThenVerify ==
    /\ (last.op = "verify" /\ setup_result = "true" /\ mounted = 0
        /\ last.env[1] = "ok" /\ last.env[4] = "ok") =>
          /\ last.ret = "true"
          /\ {"upper", "work", "persistence.conf"} \subseteq content
          /\ content = last.pre
    /\ (last.op = "setup" /\ last.env = << "ok", 0, "ok", "ok" >>) =>
          /\ last.ret = "true"
          /\ content = last.pre \cup {"upper", "work", "home", "root", "etc",
                                      "var/log", "persistence.conf"}
          /\ {"upper", "work", "home", "root", "etc", "var/log",
              "persistence.conf"} \subseteq last.pre => content = last.pre

C31_Witness ==
    /\ calls = 2
    /\ last.op = "verify"
    /\ setup_result = "true"
    /\ last.pre = {"upper", "work", "home", "root", "etc", "var/log",
                   "persistence.conf"}
    /\ last.ret = "true"

\* C32: the Flasher that main() constructs has persistence_size_mb = -1
\* exactly when --persistence-size was omitted and the value given
\* otherwise, and no size other than -1 that it passes on to the partition
\* scheme is negative.
C32_PersistenceSizeHandedOver ==
    Position(cli_trace, "construct:Flasher") > 0 =>
        /\ persistence_size_mb = -1 <=> ~cli_args.persistence_size.given
        /\ cli_args.persistence_size.given =>
              persistence_size_mb = cli_args.persistence_size.value
        /\ (persistence_enabled /\ persistence_size_mb # -1) =>
              persistence_size_mb >= 0

\* C33: a second inject_grub_config call with the same persistence_enabled
\* leaves grub.cfg as the first call left it, whatever the file was at the
\* start, and a call on an existing non-empty grub.cfg keeps its text as
\* the beginning of the result.
C33_InjectIdempotent ==
    call # << >> /\ call.op = "inject_grub_config" =>
        \A n \in 1..Len(returned) :
            /\ (n > 1 /\ call.args[n] = call.args[n - 1]) =>
                  returned[n] = returned[n - 1]
            /\ GrubBefore(n).lines # << >> =>
                  SubSeq(returned[n].lines, 1, Len(GrubBefore(n).lines))
                      = GrubBefore(n).lines

\* Prompts n - 1 and n of select_modules toggled the same module.
ToggledTwice(n) ==
    /\ n > 1
    /\ call.inputs[n] = call.inputs[n - 1]
    /\ IsInteger(call.inputs[n])
    /\ ChoiceInt(call.inputs[n]) \in 1..Len(CategoryModules)

\* The selection holds only ids of the category, none twice, and
\* select_modules returns only a non-empty selection.
SelectionWellFormed(n) ==
    /\ Ids(returned[n].selected) \subseteq Ids(CategoryModules)
    /\ \A i, j \in 1..Len(returned[n].selected) :
           returned[n].selected[i] = returned[n].selected[j] => i = j
    /\ returned[n].status = "returned" => returned[n].selected # << >>

\* C34 as stated: after any inputs the selection of select_modules holds
\* only ids of the category and none twice, 'd' returns only a non-empty
\* selection, and toggling the same module twice gives back the list
\* `selected` as it was.
C34_ToggleTwiceRestoresList ==
    call # << >> /\ call.op = "select_modules" =>
        \A n \in 1..Len(returned) :
            /\ SelectionWellFormed(n)
            /\ ToggledTwice(n) =>
                  returned[n].selected = SelectedBefore(n - 1)

\* C34: after any inputs the selection of select_modules holds only ids of
\* the category and none twice, 'd' returns only a non-empty selection, and
\* toggling the same module twice gives back the same set of selected ids;
\* the list itself is the same when the module was not selected before,
\* otherwise the module has moved to the end of the list.
C34_ToggleTwiceRestoresSet ==
    call # << >> /\ call.op = "select_modules" =>
        \A n \in 1..Len(returned) :
            /\ SelectionWellFormed(n)
            /\ ToggledTwice(n) =>
                  LET module_id == CategoryModules[ChoiceInt(call.inputs[n])]
                      before == SelectedBefore(n - 1)
                  IN  /\ Ids(returned[n].selected) = Ids(before)
                      /\ module_id \notin Ids(before) =>
                            returned[n].selected = before
                      /\ module_id \in Ids(before) =>
                            returned[n].selected =
                                Append(Remove(before, module_id), module_id)

C34_Witness ==
    /\ call # << >>
    /\ call.op = "select_modules"
    /\ call.inputs = << "a", "1", "1" >>
    /\ Len(returned) = 3
    /\ returned[3].selected = << "wireless", "forensics", "recon" >>

====
